---- MODULE Spec2Model ----
(***************************************************************************)
(* Model of the wall-e-flora-vision edge service (src/raspberry-src):      *)
(* the durable pending queue of supabase_client.py, its maintenance in     *)
(* cleanup_utils.py, and the acquisition loop and submission hand-off of   *)
(* detection_service.py.                                                   *)
(*                                                                         *)
(* Time is counted in whole clock units; one unit stands for one day, so   *)
(* max_age_seconds is PENDING_MAX_AGE_DAYS units.  Optional values         *)
(* (Python None) are sequences of length 0 or 1, or the string "None".     *)
(***************************************************************************)
EXTENDS Integers, Sequences, FiniteSets, TLC

VARIABLES
    phase,               \* position of the process: see Phases
    files,               \* path -> [exists, entries]: the pending-queue files on disk
    now,                 \* time.time()
    cfg,                 \* the environment the process runs with (fixed per behaviour)
    state,               \* DetectionService.state : SharedState
    consecutive_errors,  \* local of DetectionService._loop
    no_frame_run,        \* iterations in a row that obtained no frame (observer)
    last_send_ts,        \* DetectionService.last_send_ts
    pipeline,            \* the RealSense pipeline: "stopped" | "started"
    stop_event,          \* DetectionService.stop_event
    flushed,             \* value returned by the last flush_pending()
    stats,               \* value returned by the last cleanup_pending_cache()
    ev,                  \* the operation that made the last step, with its inputs
    disk,                \* SpecWrite: the queue file and its temporary file
    wr,                  \* SpecWrite: position of the writer inside a rewrite
    th,                  \* SpecThreads: the threads inside start(), _loop and stop()
    lk,                  \* SpecPublish: the SharedState lock and the threads that take it
    last_attempt_ts,     \* time of the last automatic attempt to a sink (observer)
    engine,              \* SpecEngine: where each thread is relative to self.model
    an                   \* SpecIoU, SpecAnalyzer, SpecImages: a call of a pure function

vars == <<phase, files, now, cfg, state, consecutive_errors, no_frame_run, last_send_ts,
          pipeline, stop_event, flushed, stats, ev, disk, wr, th, lk, last_attempt_ts, engine, an>>

----------------------------------------------------------------------------
(* Program constants.  The three cleanup limits are read from the          *)
(* environment (CLEANUP_PENDING_...); the model runs a configuration     *)
(* with small values.                                                      *)

PENDING_MAX_AGE_DAYS == 2
PENDING_MAX_RETRIES == 2
PENDING_MAX_ENTRIES == 2
max_consecutive_errors == 10
max_retries == 5

(* Bounds of the model.                                                    *)
MaxTime == 4        \* the clock stops advancing here
MaxQueue == 3       \* no append once a queue file holds this many entries
MaxRetriesSeen == 3 \* no flush once an entry has failed this many flushes
MaxDoc == 3         \* longest queue document a specification starts from

None == <<>>
Some(x) == <<x>>

DEFAULT_PATH == "pending_supabase.json"
OVERRIDE_PATH == "override.json"
Paths == {DEFAULT_PATH, OVERRIDE_PATH}

Statuses == {"noObjects", "healthy", "diseased", "mixed"}

----------------------------------------------------------------------------
(* Pending-queue entries.  send_detection appends an entry without a       *)
(* "retries" key; every reader uses entry.get("retries", 0) or             *)
(* entry.setdefault("retries", 0).                                         *)

NewEntry(payload, t) ==
    [payload |-> payload, ts |-> t, has_retries |-> FALSE, retries |-> 0]

Retries(e) == IF e.has_retries THEN e.retries ELSE 0

SetDefaultRetries(e) ==
    IF e.has_retries THEN e ELSE [e EXCEPT !.has_retries = TRUE, !.retries = 0]

IncRetries(e) ==
    [SetDefaultRetries(e) EXCEPT !.retries = Retries(e) + 1]

MissingFile == [exists |-> FALSE, entries |-> <<>>]
FileOf(entries) == [exists |-> TRUE, entries |-> entries]

(* _read_pending_entries: a missing file reads as the empty list.          *)
read_pending_entries(f) == IF f.exists THEN f.entries ELSE <<>>

(* SupabaseDetectionWriter.pending_path *)
pending_path(c) == IF c.path_override THEN OVERRIDE_PATH ELSE DEFAULT_PATH

(* the path cleanup_on_startup() hands to cleanup_pending_cache()          *)
cleanup_path(c) == DEFAULT_PATH

(* _append_pending: read, append, write back.                              *)
append_pending(f, entry) == FileOf(Append(read_pending_entries(f), entry))

----------------------------------------------------------------------------
(* flush_pending: `ok` is the set of positions whose _send_once succeeds.  *)

RECURSIVE SelectIdx(_, _, _)
SelectIdx(s, keep, i) ==
    IF i > Len(s) THEN <<>>
    ELSE IF i \in keep THEN <<s[i]>> \o SelectIdx(s, keep, i + 1)
         ELSE SelectIdx(s, keep, i + 1)

MapSeq(s, Op(_)) == [i \in 1..Len(s) |-> Op(s[i])]

flush_succeeded(entries, ok) ==
    MapSeq(SelectIdx(entries, ok, 1), SetDefaultRetries)

(* mutant: the failed entries are kept without counting the retry          *)
flush_remaining_no_count(entries, ok) ==
    SelectIdx(entries, (1..Len(entries)) \ ok, 1)

(* mutant: the rewrite keeps nothing, delivered or not                     *)
flush_remaining_drops_failed(entries, ok) == <<>>

flush_remaining(entries, ok) ==
    MapSeq(SelectIdx(entries, (1..Len(entries)) \ ok, 1), IncRetries)

----------------------------------------------------------------------------
(* cleanup_pending_cache on the list `entries` at time t.                  *)

max_age_seconds == PENDING_MAX_AGE_DAYS

TooOld(e, t) == t - e.ts > max_age_seconds
TooManyRetries(e) == Retries(e) > PENDING_MAX_RETRIES

(* list.sort(key=ts, reverse=True): stable, newest first.                  *)
RECURSIVE InsertDesc(_, _)
InsertDesc(sorted, e) ==
    IF sorted = <<>> THEN <<e>>
    ELSE IF Head(sorted).ts >= e.ts
         THEN <<Head(sorted)>> \o InsertDesc(Tail(sorted), e)
         ELSE <<e>> \o sorted

(* mutant: oldest first                                                    *)
RECURSIVE InsertAsc(_, _)
InsertAsc(sorted, e) ==
    IF sorted = <<>> THEN <<e>>
    ELSE IF Head(sorted).ts <= e.ts
         THEN <<Head(sorted)>> \o InsertAsc(Tail(sorted), e)
         ELSE <<e>> \o sorted

(* mutant: newest first, but entries of equal timestamp swap places        *)
RECURSIVE InsertDescUnstable(_, _)
InsertDescUnstable(sorted, e) ==
    IF sorted = <<>> THEN <<e>>
    ELSE IF Head(sorted).ts > e.ts
         THEN <<Head(sorted)>> \o InsertDescUnstable(Tail(sorted), e)
         ELSE <<e>> \o sorted

RECURSIVE SortByTsDesc(_)
SortByTsDesc(s) ==
    IF s = <<>> THEN <<>>
    ELSE InsertDesc(SortByTsDesc(SubSeq(s, 1, Len(s) - 1)), s[Len(s)])

RECURSIVE SortByTsAsc(_)
SortByTsAsc(s) ==
    IF s = <<>> THEN <<>>
    ELSE InsertAsc(SortByTsAsc(SubSeq(s, 1, Len(s) - 1)), s[Len(s)])

RECURSIVE SortByTsDescUnstable(_)
SortByTsDescUnstable(s) ==
    IF s = <<>> THEN <<>>
    ELSE InsertDescUnstable(SortByTsDescUnstable(SubSeq(s, 1, Len(s) - 1)),
                            s[Len(s)])

sort_oldest_first(s) == SortByTsAsc(s)
sort_newest_first_unstable(s) == SortByTsDescUnstable(s)

(* line 100: filtered_entries.sort(key=ts, reverse=True)                   *)
sort_newest_first(s) == SortByTsDesc(s)

Max(a, b) == IF a >= b THEN a ELSE b
Min(a, b) == IF a <= b THEN a ELSE b

removed_old(entries, t) ==
    Len(SelectSeq(entries, LAMBDA e : TooOld(e, t)))

(* mutant: the retry rule counts an entry that the age rule already took   *)
removed_max_retries_any_age(entries, t) ==
    Len(SelectSeq(entries, LAMBDA e : TooManyRetries(e)))

removed_max_retries(entries, t) ==
    Len(SelectSeq(entries, LAMBDA e : ~TooOld(e, t) /\ TooManyRetries(e)))

filtered_entries(entries, t) ==
    SelectSeq(entries, LAMBDA e : ~TooOld(e, t) /\ ~TooManyRetries(e))

removed_excess(entries, t) ==
    Max(0, Len(filtered_entries(entries, t)) - PENDING_MAX_ENTRIES)

cleaned_entries(entries, t) ==
    LET sorted == sort_newest_first(filtered_entries(entries, t))
    IN  SubSeq(sorted, 1, Min(Len(sorted), PENDING_MAX_ENTRIES))

ZeroStats ==
    [total_before |-> 0, removed_old |-> 0, removed_max_retries |-> 0,
     removed_excess |-> 0, total_after |-> 0]

(* mutant: after a failed write-back the statistics still report the       *)
(* cleaned count                                                           *)
cleanup_stats_cleaned_count(f, t, write_ok) ==
    IF ~f.exists THEN ZeroStats
    ELSE [total_before |-> Len(f.entries),
          removed_old |-> removed_old(f.entries, t),
          removed_max_retries |-> removed_max_retries(f.entries, t),
          removed_excess |-> removed_excess(f.entries, t),
          total_after |-> Len(cleaned_entries(f.entries, t))]

(* the statistics returned; write_ok = FALSE is the IOError branch         *)
cleanup_stats(f, t, write_ok) ==
    IF ~f.exists THEN ZeroStats
    ELSE [total_before |-> Len(f.entries),
          removed_old |-> removed_old(f.entries, t),
          removed_max_retries |-> removed_max_retries(f.entries, t),
          removed_excess |-> removed_excess(f.entries, t),
          total_after |-> IF write_ok THEN Len(cleaned_entries(f.entries, t))
                          ELSE Len(f.entries)]

(* the queue file after cleanup_pending_cache                              *)
cleanup_pending_cache(f, t, write_ok) ==
    IF ~f.exists \/ ~write_ok THEN f
    ELSE FileOf(cleaned_entries(f.entries, t))

----------------------------------------------------------------------------
(* detection_analyzer.summarize_detections.  A box is [cls, conf] with     *)
(* conf in percent; `boxes` is what the model returned for the frame.      *)

CONF_THRESHOLD == 50

Box(cls, conf) == [cls |-> cls, conf |-> conf]

Scenes ==
    { <<>>,
      <<Box("mealybug", 60)>>,
      <<Box("chrysanthemum", 90), Box("mealybug", 40)>> }

Kept(boxes) == SelectSeq(boxes, LAMBDA b : ~(b.conf < CONF_THRESHOLD))

RECURSIVE HighestConf(_)
HighestConf(kept) ==
    IF kept = <<>> THEN 0 ELSE Max(Head(kept).conf, HighestConf(Tail(kept)))

HasClass(kept, cls) == \E i \in 1..Len(kept) : kept[i].cls = cls

(* mutant: the highest confidence is reported even when no box is kept    *)
summarize_detections_conf_always(boxes) ==
    LET kept == Kept(boxes)
    IN  IF Len(kept) = 0
        THEN [status |-> "noObjects", confidence |-> Some(0), count |-> 0]
        ELSE [status |-> IF HasClass(kept, "mealybug") THEN "diseased" ELSE "healthy",
              confidence |-> Some(HighestConf(kept)), count |-> Len(kept)]

(* mutant: a kept pest decides the status before the subject is looked at  *)
summarize_detections_pest_first(boxes) ==
    LET kept == Kept(boxes)
    IN  IF Len(kept) = 0
        THEN [status |-> "noObjects", confidence |-> None, count |-> 0]
        ELSE [status |-> IF HasClass(kept, "mealybug") THEN "diseased" ELSE "healthy",
              confidence |-> Some(HighestConf(kept)), count |-> Len(kept)]

summarize_detections(boxes) ==
    LET kept == Kept(boxes)
        has_mealybug == HasClass(kept, "mealybug")
        has_chrysanthemum == HasClass(kept, "chrysanthemum")
        found(status) == [status |-> status,
                          confidence |-> Some(HighestConf(kept)),
                          count |-> Len(kept)]
    IN  IF Len(boxes) = 0 \/ Len(kept) = 0
        THEN [status |-> "noObjects", confidence |-> None, count |-> 0]
        ELSE IF has_mealybug /\ has_chrysanthemum THEN found("mixed")
        ELSE IF has_mealybug THEN found("diseased")
        ELSE found("healthy")

----------------------------------------------------------------------------
(* SharedState and the service object.                                     *)

SharedState ==
    [latest_frame |-> None, latest_jpeg_buffer |-> None, latest_timestamp |-> 0,
     status |-> "noObjects", confidence |-> None, object_count |-> 0,
     avg_fps |-> 0,
     last_send_response |-> "None", last_send_error |-> "None",
     supabase_last_response |-> "None", supabase_last_error |-> "None"]

(* lovable_enabled / lovable_ready: ENDPOINT, API_KEY, DEVICE_ID and       *)
(* SUPABASE_ANON_KEY are all set.                                          *)
lovable_enabled(c) == c.lovable

(* SupabaseDetectionWriter.is_enabled *)
supabase_enabled(c) == c.supabase

(* mutant: _should_send without the test of lines 335-336                  *)
should_send_without_sinks(c, t, last_ts) ==
    c.send_interval <= 0 \/ t - last_ts >= c.send_interval

should_send(c, t, last_ts) ==
    IF ~lovable_enabled(c) /\ ~supabase_enabled(c) THEN FALSE
    ELSE IF c.send_interval <= 0 THEN TRUE
    ELSE t - last_ts >= c.send_interval

Configs ==
    [lovable : BOOLEAN, supabase : BOOLEAN, auto : BOOLEAN,
     send_interval : {0, 1}, path_override : BOOLEAN]

Phases == {"down", "flushed", "constructed", "running", "loop_dead", "stopped"}

(* SpecWrite's view of the disk: each file is absent, or holds a document  *)
(* that is complete (a JSON list) or partial (a prefix of one).            *)
NoFile == [exists |-> FALSE, entries |-> <<>>, complete |-> FALSE]
NoDisk == [p \in {"path", "tmp"} |-> NoFile]
NoWrite == [pc |-> "idle", new |-> <<>>]

(* SpecThreads' view of the threads: where start() is, whether the loop    *)
(* thread exists and where it is, where stop() is.                         *)
NoThreads ==
    [start_pc |-> "idle", start_attempts |-> 0, worker |-> "none",
     loop_pc |-> "-", re_attempts |-> 0, stop_pc |-> "idle"]

(* SpecPublish's view of the lock: who holds it, how far the loop thread   *)
(* is through lines 238-246 and with what values, how far an HTTP reader   *)
(* is through its accessor and what it has read.                           *)
NoLock ==
    [holder |-> "none", wpc |-> 0, pending |-> <<>>,
     reader |-> "none", rpc |-> 0, view |-> <<>>]

(* SpecEngine's view of the threads that can call self.model: the loop     *)
(* thread and the request threads of the HTTP server, each idle, inside    *)
(* self.model with a frame, or past it.                                    *)
EngineThreads == {"loop", "http1", "http2"}
NoEngine == [t \in EngineThreads |-> [pc |-> "idle", frame |-> None]]

(* no pure function has been called                                        *)
NoCall == [op |-> "none"]

NoEv ==
    [op |-> "none", frame |-> "-", raised |-> "None", by |-> "-",
     lov |-> "-", sup |-> "-", io |-> "-", reconnect |-> FALSE, fails |-> 0,
     ok |-> {}, result |-> "-", inf |-> "-"]

Init ==
    /\ phase = "down"
    /\ files = [p \in Paths |-> MissingFile]
    /\ now = 1
    /\ cfg \in Configs
    /\ state = SharedState
    /\ consecutive_errors = 0
    /\ no_frame_run = 0
    /\ last_send_ts = 0
    /\ pipeline = "stopped"
    /\ stop_event = FALSE
    /\ flushed = <<>>
    /\ stats = ZeroStats
    /\ ev = NoEv
    /\ disk = NoDisk
    /\ wr = NoWrite
    /\ th = NoThreads
    /\ lk = NoLock
    /\ last_attempt_ts = 0
    /\ engine = NoEngine
    /\ an = NoCall

UnchangedWrite == UNCHANGED <<disk, wr, th, lk, last_attempt_ts, engine, an>>

Tick ==
    /\ now < MaxTime
    /\ now' = now + 1
    /\ ev' = [NoEv EXCEPT !.op = "tick"]
    /\ UNCHANGED <<phase, files, cfg, state, consecutive_errors, no_frame_run, last_send_ts,
                   pipeline, stop_event, flushed, stats>>
    /\ UnchangedWrite

----------------------------------------------------------------------------
(* DetectionService.__init__: the service fields, then flush_pending when  *)
(* the writer is enabled, then cleanup_on_startup.  The two queue          *)
(* operations are two consecutive positions of the constructing process.   *)

(* lines 88-96 with the writer disabled: flush_pending is not called       *)
InitNoFlush ==
    /\ phase = "down"
    /\ ~supabase_enabled(cfg)
    /\ phase' = "flushed"
    /\ state' = SharedState
    /\ consecutive_errors' = 0
    /\ no_frame_run' = 0
    /\ last_send_ts' = 0
    /\ stop_event' = FALSE
    /\ flushed' = <<>>
    /\ ev' = [NoEv EXCEPT !.op = "init"]
    /\ UNCHANGED <<files, now, cfg, pipeline, stats>>
    /\ UnchangedWrite

(* lines 88-100 with the writer enabled: flush_pending().  `ok` are the    *)
(* positions whose _send_once succeeds, io is the outcome of the rewrite.  *)
InitFlush(ok, io) ==
    LET path == pending_path(cfg)
        entries == read_pending_entries(files[path])
    IN  /\ phase = "down"
        /\ supabase_enabled(cfg)
        /\ \A i \in 1..Len(entries) : Retries(entries[i]) < MaxRetriesSeen
        /\ ok \subseteq 1..Len(entries)
        /\ io \in {"ok", "fail"}
        /\ entries = <<>> => io = "ok"
        /\ state' = SharedState
        /\ consecutive_errors' = 0
        /\ no_frame_run' = 0
        /\ last_send_ts' = 0
        /\ stop_event' = FALSE
        /\ ev' = [NoEv EXCEPT !.op = "flush", !.io = io, !.ok = ok,
                              !.raised = IF io = "ok" THEN "None" ELSE "OSError"]
        /\ IF entries = <<>>
           THEN /\ flushed' = <<>>
                /\ phase' = "flushed"
                /\ UNCHANGED files
           ELSE IF io = "ok"
           THEN /\ files' = [files EXCEPT ![path] = FileOf(flush_remaining(entries, ok))]
                /\ flushed' = flush_succeeded(entries, ok)
                /\ phase' = "flushed"
           ELSE \* _write_pending_entries raises: __init__ fails
                /\ UNCHANGED <<files, flushed>>
                /\ phase' = "down"
        /\ UNCHANGED <<now, cfg, pipeline, stats>>
        /\ UnchangedWrite

(* line 103: cleanup_on_startup() -> cleanup_pending_cache()               *)
InitCleanup(io) ==
    LET path == cleanup_path(cfg)
    IN  /\ phase = "flushed"
        /\ io \in {"ok", "fail"}
        /\ ~files[path].exists => io = "ok"
        /\ files' = [files EXCEPT ![path] = cleanup_pending_cache(@, now, io = "ok")]
        /\ stats' = cleanup_stats(files[path], now, io = "ok")
        /\ phase' = "constructed"
        /\ ev' = [NoEv EXCEPT !.op = "cleanup", !.io = io]
        /\ UNCHANGED <<now, cfg, state, consecutive_errors, no_frame_run, last_send_ts, pipeline,
                       stop_event, flushed>>
        /\ UnchangedWrite

----------------------------------------------------------------------------
(* _start_pipeline: `fails` attempts fail before one succeeds; with        *)
(* fails = max_retries every attempt failed and SystemExit is raised.      *)

start_pipeline_ok(fails) == fails < max_retries

(* DetectionService.start *)
Start(fails) ==
    /\ phase = "constructed"
    /\ fails \in 0..max_retries
    /\ IF start_pipeline_ok(fails)
       THEN pipeline' = "started" /\ phase' = "running"
       ELSE pipeline' = "stopped" /\ phase' = "down"
    /\ ev' = [NoEv EXCEPT !.op = "start", !.fails = fails,
                          !.raised = IF start_pipeline_ok(fails) THEN "None"
                                     ELSE "SystemExit"]
    /\ UNCHANGED <<files, now, cfg, state, consecutive_errors, no_frame_run, last_send_ts,
                   stop_event, flushed, stats>>
    /\ UnchangedWrite

(* DetectionService.stop: the loop sees the flag at the top of its next    *)
(* iteration and returns; the pipeline is stopped.                         *)
Stop ==
    /\ phase \in {"running", "loop_dead"}
    /\ stop_event' = TRUE
    /\ pipeline' = "stopped"
    /\ phase' = "stopped"
    /\ ev' = [NoEv EXCEPT !.op = "stop"]
    /\ UNCHANGED <<files, now, cfg, state, consecutive_errors, no_frame_run, last_send_ts,
                   flushed, stats>>
    /\ UnchangedWrite

(* the process ends (or is killed); the files stay                         *)
Exit ==
    /\ phase # "down"
    /\ phase' = "down"
    /\ pipeline' = "stopped"
    /\ ev' = [NoEv EXCEPT !.op = "exit"]
    /\ UNCHANGED <<files, now, cfg, state, consecutive_errors, no_frame_run, last_send_ts,
                   stop_event, flushed, stats>>
    /\ UnchangedWrite

----------------------------------------------------------------------------
(* DetectionService._loop, one action per path through an iteration.       *)

(* which except clause of _loop takes an exception raised in the try body  *)
handler_of(exc) ==
    IF exc = "None" THEN "none"                     \* nothing was raised
    ELSE IF exc = "RuntimeError" THEN "frame_error" \* except RuntimeError, line 290
    ELSE IF exc = "SystemExit" THEN "uncaught"      \* not an Exception
    ELSE "unexpected"                               \* except Exception, line 305

(* lines 177-178 and 291-296: count the error, reconnect at the threshold  *)
needs_reconnect(errors) == errors >= max_consecutive_errors

(* mutant: a failed acquisition is not counted                             *)
errors_after_uncounted(errors, fails) == errors

(* the counter when the iteration ends, lines 177-183 and 291-301          *)
errors_after(errors, fails) ==
    IF needs_reconnect(errors + 1)
    THEN IF start_pipeline_ok(fails) THEN 0 ELSE errors + 1
    ELSE errors + 1

(* _reconnect_camera inside an iteration: the loop thread survives unless  *)
(* _start_pipeline raises SystemExit                                       *)
phase_after_errors(errors, fails) ==
    IF needs_reconnect(errors + 1) /\ ~start_pipeline_ok(fails)
    THEN "loop_dead" ELSE "running"

pipeline_after_errors(errors, fails) ==
    IF needs_reconnect(errors + 1) /\ ~start_pipeline_ok(fails)
    THEN "stopped" ELSE "started"

(* lines 172-184 (no colour frame) and 290-303 (wait_for_frames raises)    *)
IterFrameFail(kind, fails) ==
    /\ phase = "running"
    /\ ~stop_event
    /\ kind \in {"no_color", "wait_error"}
    /\ fails \in 0..max_retries
    /\ ~needs_reconnect(consecutive_errors + 1) => fails = 0
    /\ consecutive_errors' = errors_after(consecutive_errors, fails)
    /\ no_frame_run' = IF needs_reconnect(consecutive_errors + 1) THEN 0
                       ELSE no_frame_run + 1
    /\ phase' = phase_after_errors(consecutive_errors, fails)
    /\ pipeline' = pipeline_after_errors(consecutive_errors, fails)
    /\ ev' = [NoEv EXCEPT !.op = "iter", !.frame = kind, !.fails = fails,
                          !.reconnect = needs_reconnect(consecutive_errors + 1)]
    /\ UNCHANGED <<files, now, cfg, state, last_send_ts, stop_event, flushed, stats>>
    /\ UnchangedWrite

(* mutant: line 187 missing, the counter survives a frame that arrived     *)
errors_on_frame_kept(errors) == errors

(* line 187 *)
errors_on_frame(errors) == 0

(* lines 305-307: the unexpected-error handler records the error           *)
record_unexpected(st, exc) == [st EXCEPT !.last_send_error = exc]

(* the effect of an exception `exc` raised in the try body after line 187, *)
(* with SharedState st at the time it is raised                            *)
state_after_raise(st, exc) ==
    IF handler_of(exc) = "unexpected" THEN record_unexpected(st, exc) ELSE st

errors_after_raise(errors, exc, fails) ==
    IF handler_of(exc) = "frame_error" THEN errors_after(errors, fails) ELSE errors

phase_after_raise(errors, exc, fails) ==
    IF handler_of(exc) = "frame_error" THEN phase_after_errors(errors, fails)
    ELSE IF handler_of(exc) = "uncaught" THEN "loop_dead"
    ELSE "running"

pipeline_after_raise(errors, exc, fails) ==
    IF handler_of(exc) = "frame_error" THEN pipeline_after_errors(errors, fails)
    ELSE "started"

(* lines 189-193: the frame arrived, inference or the analyzer raises      *)
IterInferenceError(exc, fails) ==
    LET errors == errors_on_frame(consecutive_errors)
    IN  /\ phase = "running"
        /\ ~stop_event
        /\ exc \in {"RuntimeError", "Exception"}
        /\ fails \in 0..max_retries
        /\ ~(handler_of(exc) = "frame_error" /\ needs_reconnect(errors + 1)) => fails = 0
        /\ consecutive_errors' = errors_after_raise(errors, exc, fails)
        /\ no_frame_run' = 0
        /\ phase' = phase_after_raise(errors, exc, fails)
        /\ pipeline' = pipeline_after_raise(errors, exc, fails)
        /\ state' = state_after_raise(state, exc)
        /\ ev' = [NoEv EXCEPT !.op = "iter", !.frame = "ok", !.raised = exc,
                              !.by = "inference", !.fails = fails,
                              !.reconnect = handler_of(exc) = "frame_error"
                                            /\ needs_reconnect(errors + 1)]
        /\ UNCHANGED <<files, now, cfg, last_send_ts, stop_event, flushed, stats>>
        /\ UnchangedWrite

(* lines 194-198: the smoothed rate after the iteration that runs at t     *)
fps_value(t) == t

(* lines 238-246: publish the frame and its summary                        *)
publish(st, boxes, t) ==
    LET summary == summarize_detections(boxes)
    IN  [st EXCEPT !.latest_frame = Some(boxes),
                   !.latest_jpeg_buffer = Some(boxes),
                   !.latest_timestamp = t,
                   !.status = summary.status,
                   !.confidence = summary.confidence,
                   !.object_count = summary.count,
                   !.avg_fps = fps_value(t),
                   !.last_send_error = "None"]

(* lines 172-288 with no submission due                                    *)
IterPublish(boxes) ==
    /\ phase = "running"
    /\ ~stop_event
    /\ boxes \in Scenes
    /\ ~(cfg.auto /\ should_send(cfg, now, last_send_ts))
    /\ consecutive_errors' = errors_on_frame(consecutive_errors)
    /\ no_frame_run' = 0
    /\ state' = publish(state, boxes, now)
    /\ ev' = [NoEv EXCEPT !.op = "iter", !.frame = "ok"]
    /\ UNCHANGED <<phase, files, now, cfg, last_send_ts, pipeline, stop_event,
                   flushed, stats>>
    /\ UnchangedWrite

----------------------------------------------------------------------------
(* DetectionService._send_detection and _send_supabase.  Outcomes:         *)
(*   enc  encode_frame_to_base64: "ok" | "fail" (RuntimeError)             *)
(*   lov  the POST to ENDPOINT:   "ok" | "fail" (RequestException) | "skip"*)
(*   sup  _send_once:             "ok" | "fail" (RequestException) | "skip"*)
(*   io   the rewrite of the queue file in _append_pending: "ok" | "fail"  *)
(*        (OSError), "-" when nothing is appended                          *)

(* lines 407-431 *)
after_lovable(st, lov) ==
    IF lov = "ok"
    THEN [st EXCEPT !.last_send_response = "response", !.last_send_error = "None"]
    ELSE IF lov = "fail" THEN [st EXCEPT !.last_send_error = "RequestException"]
    ELSE st

(* supabase_client.send_detection, lines 66-80: the exception it raises    *)
send_detection_raises(sup, io) ==
    IF sup # "fail" THEN "None"
    ELSE IF io = "ok" THEN "RequestException"   \* appended, then re-raised
    ELSE "OSError"                              \* _append_pending itself raised

(* mutant: the failed result replaces what was queued                      *)
send_detection_file_replaces(f, entry, sup, io) ==
    IF sup = "fail" /\ io = "ok" THEN FileOf(<<entry>>) ELSE f

(* supabase_client.send_detection, lines 70-79: the queue file afterwards  *)
send_detection_file(f, entry, sup, io) ==
    IF sup = "fail" /\ io = "ok" THEN append_pending(f, entry) ELSE f

(* _send_supabase, lines 597-610: SharedState afterwards                   *)
send_supabase_state(st, sup, io) ==
    IF sup = "ok"
    THEN [st EXCEPT !.supabase_last_response = "success",
                    !.supabase_last_error = "None"]
    ELSE IF send_detection_raises(sup, io) = "RequestException"
    THEN [st EXCEPT !.supabase_last_error = "RequestException"]
    ELSE st

(* _send_supabase: what it lets through to its caller                      *)
send_supabase_raises(sup, io) ==
    IF send_detection_raises(sup, io) \in {"None", "RequestException"} THEN "None"
    ELSE send_detection_raises(sup, io)

(* _send_detection: the exception that reaches _loop                       *)
send_detection_propagates(enc, sup, io) ==
    IF enc = "fail" THEN "None" ELSE send_supabase_raises(sup, io)

(* _send_detection, lines 359-433: SharedState when it returns or raises   *)
send_detection_state(st, enc, lov, sup, io) ==
    IF enc = "fail" THEN [st EXCEPT !.last_send_error = "RuntimeError"]
    ELSE send_supabase_state(after_lovable(st, lov), sup, io)

(* line 434 is reached only when nothing was raised and encoding worked    *)
send_ts_after(last_ts, t, enc, sup, io) ==
    IF enc = "ok" /\ send_detection_propagates(enc, sup, io) = "None"
    THEN t ELSE last_ts

(* lines 407-410 and 433: the time of the last POST to either sink         *)
attempt_ts_after(last_ts, t, lov, sup) ==
    IF lov \in {"ok", "fail"} \/ sup \in {"ok", "fail"} THEN t ELSE last_ts

Outcomes(c) ==
    { o \in [enc : {"ok", "fail"}, lov : {"ok", "fail", "skip"},
             sup : {"ok", "fail", "skip"}, io : {"ok", "fail", "-"}] :
        /\ (o.lov = "skip") = (o.enc = "fail" \/ ~lovable_enabled(c))
        /\ (o.sup = "skip") = (o.enc = "fail" \/ ~supabase_enabled(c))
        /\ (o.io = "-") = (o.sup # "fail") }

(* lines 172-288 with a submission: publish, then _send_detection          *)
IterSubmit(boxes, o) ==
    LET path == pending_path(cfg)
        published == publish(state, boxes, now)
        entry == NewEntry(published.status, now)
        raised == send_detection_propagates(o.enc, o.sup, o.io)
        sent == send_detection_state(published, o.enc, o.lov, o.sup, o.io)
    IN  /\ phase = "running"
        /\ ~stop_event
        /\ boxes \in Scenes
        /\ cfg.auto /\ should_send(cfg, now, last_send_ts)
        /\ o \in Outcomes(cfg)
        /\ (o.sup = "fail" /\ o.io = "ok")
              => Len(read_pending_entries(files[path])) < MaxQueue
        /\ consecutive_errors' =
              errors_after_raise(errors_on_frame(consecutive_errors), raised, 0)
        /\ no_frame_run' = 0
        /\ phase' = phase_after_raise(errors_on_frame(consecutive_errors), raised, 0)
        /\ state' = state_after_raise(sent, raised)
        /\ files' = [files EXCEPT ![path] = send_detection_file(@, entry, o.sup, o.io)]
        /\ last_send_ts' = send_ts_after(last_send_ts, now, o.enc, o.sup, o.io)
        /\ ev' = [NoEv EXCEPT !.op = "iter", !.frame = "ok", !.raised = raised,
                              !.by = "submission", !.lov = o.lov, !.sup = o.sup,
                              !.io = o.io]
        /\ last_attempt_ts' = attempt_ts_after(last_attempt_ts, now, o.lov, o.sup)
        /\ UNCHANGED <<now, cfg, pipeline, stop_event, flushed, stats>>
        /\ UNCHANGED <<disk, wr, th, lk, engine, an>>

----------------------------------------------------------------------------
(* The whole service: every operation, every configuration.                *)

Next ==
    \/ Tick
    \/ InitNoFlush
    \/ \E ok \in SUBSET (1..MaxQueue), io \in {"ok", "fail"} : InitFlush(ok, io)
    \/ \E io \in {"ok", "fail"} : InitCleanup(io)
    \/ \E fails \in 0..max_retries : Start(fails)
    \/ Stop
    \/ Exit
    \/ \E kind \in {"no_color", "wait_error"}, fails \in 0..max_retries :
          IterFrameFail(kind, fails)
    \/ \E exc \in {"RuntimeError", "Exception"}, fails \in 0..max_retries :
          IterInferenceError(exc, fails)
    \/ \E boxes \in Scenes : IterPublish(boxes)
    \/ \E boxes \in Scenes, o \in Outcomes(cfg) : IterSubmit(boxes, o)

Spec == Init /\ [][Next]_vars

----------------------------------------------------------------------------
(* SpecLoop: the acquisition loop of a constructed service, one scene in   *)
(* front of the camera, no time passing.                                   *)

LoopScene == <<Box("mealybug", 60)>>

InitLoop ==
    /\ Init
    /\ ~cfg.path_override
    /\ cfg.send_interval = 0

NextLoop ==
    \/ InitNoFlush
    \/ \E io \in {"ok", "fail"} : InitFlush({}, io)
    \/ InitCleanup("ok")
    \/ \E fails \in 0..max_retries : Start(fails)
    \/ Stop
    \/ Exit
    \/ \E kind \in {"no_color", "wait_error"}, fails \in 0..max_retries :
          IterFrameFail(kind, fails)
    \/ \E exc \in {"RuntimeError", "Exception"}, fails \in 0..max_retries :
          IterInferenceError(exc, fails)
    \/ IterPublish(LoopScene)
    \/ \E o \in Outcomes(cfg) : IterSubmit(LoopScene, o)

SpecLoop == InitLoop /\ [][NextLoop]_vars

----------------------------------------------------------------------------
(* SpecStartup: one construction, its flush and maintenance, started on any *)
(* queue document of up to MaxDoc entries.  The entries are old, at the    *)
(* age limit or fresh, and have no retry count yet or the highest count    *)
(* cleanup keeps (one more failed flush puts them over it).                *)

StartupNow == max_age_seconds + 2

StartupEntries ==
    { NewEntry("diseased", t) :
        t \in {StartupNow - max_age_seconds - 1, StartupNow - max_age_seconds,
               StartupNow} }
    \cup
    { [NewEntry("diseased", t) EXCEPT !.has_retries = TRUE,
                                     !.retries = PENDING_MAX_RETRIES] :
        t \in {StartupNow - max_age_seconds - 1, StartupNow - max_age_seconds,
               StartupNow} }

StartupDocs == UNION { [1..n -> StartupEntries] : n \in 0..MaxDoc }

InitStartup ==
    /\ phase = "down"
    /\ cfg \in { c \in Configs : ~c.lovable /\ ~c.auto /\ c.send_interval = 0 }
    /\ \E doc \in StartupDocs, exists \in BOOLEAN :
          /\ ~exists => doc = <<>>
          /\ files = [p \in Paths |->
                        IF p = pending_path(cfg) /\ exists THEN FileOf(doc)
                        ELSE MissingFile]
    /\ now = StartupNow
    /\ state = SharedState
    /\ consecutive_errors = 0
    /\ no_frame_run = 0
    /\ last_send_ts = 0
    /\ pipeline = "stopped"
    /\ stop_event = FALSE
    /\ flushed = <<>>
    /\ stats = ZeroStats
    /\ ev = NoEv
    /\ disk = NoDisk
    /\ wr = NoWrite
    /\ th = NoThreads
    /\ lk = NoLock
    /\ last_attempt_ts = 0
    /\ engine = NoEngine
    /\ an = NoCall

NextStartup ==
    \/ InitNoFlush
    \/ \E ok \in SUBSET (1..MaxDoc), io \in {"ok", "fail"} : InitFlush(ok, io)
    \/ \E io \in {"ok", "fail"} : InitCleanup(io)

SpecStartup == InitStartup /\ [][NextStartup]_vars

----------------------------------------------------------------------------
(* SpecWrite: one rewrite of the queue file, step by step.                 *)
(* _write_pending_entries (supabase_client.py 202-207) and the write-back  *)
(* of cleanup_pending_cache (cleanup_utils.py 107-111) both open           *)
(* f"{path}.tmp" for writing, json.dump the new list into it, close it and *)
(* os.replace it over the queue file.  The process can die, or a step can  *)
(* raise, between any two steps.                                           *)

Document(entries) == [exists |-> TRUE, entries |-> entries, complete |-> TRUE]
Partial(entries) == [exists |-> TRUE, entries |-> entries, complete |-> FALSE]

(* mutant: the new list is written straight into the queue file            *)
tmp_path_in_place == "path"

(* tmp_path = f"{path}.tmp" *)
tmp_path == "tmp"

(* json.load of the queue file; a missing file reads as []                 *)
read_document(f) == IF f.exists THEN f.entries ELSE <<>>

(* the documents a rewrite starts from: entries already past the age      *)
(* limit, fresh ones, and fresh ones at the retry limit                    *)
WriteEntries ==
    { NewEntry("diseased", StartupNow - max_age_seconds - 1),
      NewEntry("diseased", StartupNow - 1),
      [NewEntry("diseased", StartupNow - 1) EXCEPT
          !.has_retries = TRUE, !.retries = PENDING_MAX_RETRIES] }

WriteDocs == UNION { [1..n -> WriteEntries] : n \in 0..MaxDoc }

InitWrite ==
    /\ phase = "down"
    /\ cfg \in { c \in Configs : c.supabase /\ ~c.lovable /\ ~c.auto
                                 /\ c.send_interval = 0 /\ ~c.path_override }
    /\ files = [p \in Paths |-> MissingFile]
    /\ now = StartupNow
    /\ state = SharedState
    /\ consecutive_errors = 0
    /\ no_frame_run = 0
    /\ last_send_ts = 0
    /\ pipeline = "stopped"
    /\ stop_event = FALSE
    /\ flushed = <<>>
    /\ stats = ZeroStats
    /\ ev = NoEv
    /\ \E doc \in WriteDocs, exists \in BOOLEAN :
          /\ ~exists => doc = <<>>
          /\ disk = [NoDisk EXCEPT !["path"] = IF exists THEN Document(doc) ELSE NoFile]
    /\ wr = NoWrite
    /\ th = NoThreads
    /\ lk = NoLock
    /\ last_attempt_ts = 0
    /\ engine = NoEngine
    /\ an = NoCall

UnchangedService ==
    UNCHANGED <<phase, files, now, cfg, state, consecutive_errors, no_frame_run, last_send_ts,
                pipeline, stop_event, flushed, stats, ev, th, lk, last_attempt_ts, engine,
                an>>

(* the caller has read the whole document and computed the new one         *)
BeginWrite(new) ==
    /\ wr.pc = "idle"
    /\ wr' = [pc |-> "computed", new |-> new]
    /\ UNCHANGED disk
    /\ UnchangedService

(* _append_pending, lines 188-190 *)
BeginAppend ==
    /\ Len(read_document(disk["path"])) < MaxDoc
    /\ BeginWrite(Append(read_document(disk["path"]), NewEntry("diseased", now)))

(* flush_pending, lines 85-102 *)
BeginFlush(ok) ==
    /\ read_document(disk["path"]) # <<>>
    /\ ok \subseteq 1..Len(read_document(disk["path"]))
    /\ \A e \in { read_document(disk["path"])[i] :
                    i \in 1..Len(read_document(disk["path"])) } :
          Retries(e) < MaxRetriesSeen
    /\ BeginWrite(flush_remaining(read_document(disk["path"]), ok))

(* cleanup_pending_cache, lines 38-104 *)
BeginCleanup ==
    /\ disk["path"].exists
    /\ BeginWrite(cleaned_entries(read_document(disk["path"]), now))

(* open(tmp_path, "w") creates or truncates the file                       *)
OpenTmp ==
    /\ wr.pc = "computed"
    /\ disk' = [disk EXCEPT ![tmp_path] = Partial(<<>>)]
    /\ wr' = [wr EXCEPT !.pc = "open"]
    /\ UnchangedService

(* json.dump writes the list piece by piece                                *)
DumpChunk ==
    /\ wr.pc = "open"
    /\ Len(disk[tmp_path].entries) < Len(wr.new)
    /\ disk' = [disk EXCEPT ![tmp_path] =
                   Partial(SubSeq(wr.new, 1, Len(disk[tmp_path].entries) + 1))]
    /\ UNCHANGED wr
    /\ UnchangedService

(* the with-block ends: the closing bracket is written and the file closed *)
CloseTmp ==
    /\ wr.pc = "open"
    /\ Len(disk[tmp_path].entries) = Len(wr.new)
    /\ disk' = [disk EXCEPT ![tmp_path] = Document(wr.new)]
    /\ wr' = [wr EXCEPT !.pc = "closed"]
    /\ UnchangedService

(* os.replace(tmp_path, path) *)
Replace ==
    /\ wr.pc = "closed"
    /\ disk' = IF tmp_path = "path" THEN disk
               ELSE [disk EXCEPT !["path"] = disk[tmp_path], ![tmp_path] = NoFile]
    /\ wr' = NoWrite
    /\ UnchangedService

(* the process dies, or a step raises, inside the rewrite: what is on disk *)
(* stays as it is                                                          *)
Crash ==
    /\ wr.pc # "idle"
    /\ wr' = NoWrite
    /\ UNCHANGED disk
    /\ UnchangedService

NextWrite ==
    \/ BeginAppend
    \/ \E ok \in SUBSET (1..MaxDoc) : BeginFlush(ok)
    \/ BeginCleanup
    \/ OpenTmp
    \/ DumpChunk
    \/ CloseTmp
    \/ Replace
    \/ Crash

SpecWrite == InitWrite /\ [][NextWrite]_vars

----------------------------------------------------------------------------
(* Claims about the pending queue.                                         *)

Count(s, e) == Cardinality({ i \in 1..Len(s) : s[i] = e })
Range(s) == { s[i] : i \in 1..Len(s) }
SameButRetries(a, b) == a.payload = b.payload /\ a.ts = b.ts
RankIn(set, i) == Cardinality({ j \in set : j <= i })

C4_QueueNeverExceedsMaximum ==
    \A p \in Paths : Len(read_pending_entries(files[p])) <= PENDING_MAX_ENTRIES

(* C5 as stated: after cleanup_pending_cache has run, the queue it ran on  *)
(* holds at most PENDING_MAX_ENTRIES entries.                              *)
C5_AfterCleanupAtMostMaximum ==
    ev.op = "cleanup" =>
        Len(read_pending_entries(files[cleanup_path(cfg)])) <= PENDING_MAX_ENTRIES

(* C5 amended: after a cleanup_pending_cache whose write-back succeeds the *)
(* queue holds at most PENDING_MAX_ENTRIES entries, all of them survivors  *)
(* of the age and retry rules, and every survivor dropped as excess has a  *)
(* timestamp no newer than every retained entry; when the write-back fails *)
(* the queue file is unchanged.                                            *)
C5_CleanupKeepsTheNewest ==
    [][ ev'.op = "cleanup" =>
        LET old == files[cleanup_path(cfg)]
            new == files'[cleanup_path(cfg)]
            survivors == SelectSeq(old.entries,
                            LAMBDA e : ~TooOld(e, now) /\ ~TooManyRetries(e))
        IN  IF ev'.io = "ok" /\ old.exists
            THEN /\ Len(new.entries) = Min(Len(survivors), PENDING_MAX_ENTRIES)
                 /\ \A e \in Range(new.entries) :
                       Count(new.entries, e) <= Count(survivors, e)
                 /\ \A e \in Range(survivors) :
                       Count(new.entries, e) < Count(survivors, e) =>
                          \A k \in Range(new.entries) : e.ts <= k.ts
            ELSE new = old
      ]_vars

(* C5 witness: a cleanup has dropped entries as excess.                    *)
C5_Witness ==
    /\ ev.op = "cleanup" /\ ev.io = "ok"
    /\ stats.removed_excess > 0
    /\ Len(files[cleanup_path(cfg)].entries) = PENDING_MAX_ENTRIES

(* C6: in the state a successful cleanup_pending_cache leaves (same clock, *)
(* no other writer), running it again removes nothing and leaves the queue *)
(* contents and their order unchanged.                                     *)
C6_CleanupIdempotent ==
    (ev.op = "cleanup" /\ ev.io = "ok") =>
        LET f == files[cleanup_path(cfg)]
            again == cleanup_stats(f, now, TRUE)
        IN  /\ cleanup_pending_cache(f, now, TRUE) = f
            /\ again.removed_old = 0
            /\ again.removed_max_retries = 0
            /\ again.removed_excess = 0
            /\ again.total_after = again.total_before

(* C6 witness: the first run removed entries and kept two of the same      *)
(* timestamp.                                                              *)
C6_Witness ==
    /\ ev.op = "cleanup" /\ ev.io = "ok"
    /\ stats.total_after < stats.total_before
    /\ LET q == files[cleanup_path(cfg)].entries
       IN  Len(q) = 2 /\ q[1].ts = q[2].ts /\ q[1] # q[2]

(* C7 as stated: the statistics of every run add up,                       *)
(* total_before = removed_old + removed_max_retries + removed_excess +     *)
(* total_after.                                                            *)
C7_StatsAddUp ==
    ev.op = "cleanup" =>
        stats.total_before = stats.removed_old + stats.removed_max_retries
                             + stats.removed_excess + stats.total_after

(* C7 amended: the rules apply in the order age, retry count, excess and   *)
(* each input entry is counted in at most one removal bucket (an entry     *)
(* both too old and over the retry ceiling counts as old only);            *)
(* total_after is the number of entries in the queue afterwards; and       *)
(* total_before = removed_old + removed_max_retries + removed_excess +     *)
(* total_after whenever the cleaned queue was written back (when the       *)
(* write-back fails, total_after = total_before).                          *)
C7_StatsAccountForEveryEntry ==
    [][ (ev'.op = "cleanup" /\ files[cleanup_path(cfg)].exists) =>
        LET old == files[cleanup_path(cfg)].entries
            new == files'[cleanup_path(cfg)].entries
            idx == 1..Len(old)
            isOld == { i \in idx : now - old[i].ts > max_age_seconds }
            isOver == { i \in idx \ isOld : Retries(old[i]) > PENDING_MAX_RETRIES }
            rest == idx \ (isOld \cup isOver)
        IN  /\ stats'.total_before = Len(old)
            /\ stats'.removed_old = Cardinality(isOld)
            /\ stats'.removed_max_retries = Cardinality(isOver)
            /\ stats'.removed_excess =
                  Max(0, Cardinality(rest) - PENDING_MAX_ENTRIES)
            /\ stats'.total_after = Len(new)
            /\ ev'.io = "ok" =>
                  stats'.total_before =
                     stats'.removed_old + stats'.removed_max_retries
                     + stats'.removed_excess + stats'.total_after
            /\ ev'.io = "fail" => stats'.total_after = stats'.total_before
      ]_vars

(* C7 witness: a run that removed by age and by retry count.               *)
C7_Witness ==
    /\ ev.op = "cleanup" /\ ev.io = "ok"
    /\ stats.removed_old > 0
    /\ stats.removed_max_retries > 0
    /\ stats.total_after > 0

(* C3: at every step of a rewrite, a crash between the steps included, the *)
(* queue file is absent or holds a complete document, and a step changes   *)
(* it only by replacing it in one step with the complete new list of the   *)
(* rewrite in progress.                                                    *)
C3_QueueFileAlwaysWhole ==
    [][ /\ disk["path"].exists => disk["path"].complete
        /\ disk'["path"].exists => disk'["path"].complete
        /\ \/ disk'["path"] = disk["path"]
           \/ wr.pc = "closed" /\ disk'["path"] = Document(wr.new)
      ]_vars

(* C3 witness: a crash after the temporary file was partly written left    *)
(* the partial temporary file behind, next to a queue file that is whole.  *)
C3_Witness ==
    /\ wr.pc = "idle"
    /\ disk["tmp"].exists /\ ~disk["tmp"].complete
    /\ disk["tmp"].entries # <<>>
    /\ disk["path"].exists /\ disk["path"].complete
    /\ disk["path"].entries # <<>>

----------------------------------------------------------------------------
(* Claims about the acquisition loop (SpecLoop).                           *)

(* C1: an iteration whose submission fails at the secondary sink records   *)
(* the error as that sink's last error and appends exactly one entry with  *)
(* retry count 0 to the queue, leaving the entries before it as they were. *)
C1_FailedDeliveryRecordedAndQueued ==
    [][ (ev'.op = "iter" /\ ev'.by = "submission" /\ ev'.sup = "fail") =>
          LET before == read_pending_entries(files[pending_path(cfg)])
              after == read_pending_entries(files'[pending_path(cfg)])
          IN  /\ state'.supabase_last_error = "RequestException"
              /\ Len(after) = Len(before) + 1
              /\ SubSeq(after, 1, Len(before)) = before
              /\ Retries(after[Len(after)]) = 0
              /\ after[Len(after)].payload = state'.status
      ]_vars

(* C8: an iteration that got its frame, whatever inference, analysis or    *)
(* submission raised in it, leaves the loop running.                       *)
C8_LoopSurvivesInferenceAndSubmissionErrors ==
    [][ (ev'.op = "iter" /\ ev'.by \in {"inference", "submission"}) =>
          /\ phase' = "running"
          /\ pipeline' = "started"
          /\ ~stop_event'
      ]_vars

(* C8 witness: inference raised RuntimeError, the frame-error handler took *)
(* it, and the loop runs on with the counter at 1.                         *)
C8_Witness ==
    /\ ev.op = "iter"
    /\ ev.by = "inference"
    /\ ev.raised = "RuntimeError"
    /\ consecutive_errors = 1
    /\ phase = "running"

(* C9: after an iteration with a submission, nothing was raised into the   *)
(* loop, and a failed delivery is on record in SharedState as the failing  *)
(* sink's error.                                                           *)
C9_SubmissionNeverRaisesIntoLoop ==
    (ev.op = "iter" /\ ev.by = "submission") =>
        /\ ev.raised = "None"
        /\ ev.sup = "fail" => state.supabase_last_error = "RequestException"
        /\ ev.lov = "fail" => state.last_send_error = "RequestException"

(* C10: a reconnect happens at the 10th iteration in a row without a frame *)
(* and at no other; the counter is 0 after a reconnect and after an        *)
(* iteration that got its frame.                                           *)
C10_ReconnectExactlyAtTenthFailure ==
    [][ ev'.op = "iter" =>
          /\ (ev'.frame # "ok" /\ no_frame_run + 1 = max_consecutive_errors)
                => ev'.reconnect
          /\ ev'.reconnect => no_frame_run + 1 = max_consecutive_errors
          /\ (ev'.reconnect /\ phase' = "running") => consecutive_errors' = 0
          /\ (ev'.frame = "ok" /\ ev'.raised = "None") => consecutive_errors' = 0
      ]_vars

----------------------------------------------------------------------------
(* The HTTP side of DetectionService.                                      *)

(* get_status, lines 467-483: the status response built from SharedState   *)
get_status(st) ==
    [status |-> st.status,
     confidence |-> st.confidence,
     objectCount |-> st.object_count,
     avgFps |-> st.avg_fps,
     lastFrameTs |-> st.latest_timestamp,
     lastSendResponse |-> st.last_send_response,
     lastSendError |-> st.last_send_error,
     supabaseLastResponse |-> st.supabase_last_response,
     supabaseLastError |-> st.supabase_last_error]

----------------------------------------------------------------------------
(* Claims about start, stop and reconnect (SpecLoop).                      *)

(* C11: when a reconnect exhausts its restart attempts the loop ends and   *)
(* the status the service hands to its callers shows it: the status        *)
(* response after that iteration differs from the one before it.           *)
C11_ReconnectFailureSurfaced ==
    [][ (ev'.op = "iter" /\ ev'.reconnect /\ ~start_pipeline_ok(ev'.fails)) =>
          /\ phase' = "loop_dead"
          /\ get_status(state') # get_status(state)
      ]_vars

----------------------------------------------------------------------------
(* SpecThreads: start(), the loop thread and stop() step by step.          *)
(* start() runs _start_pipeline and then creates the loop thread; the loop *)
(* thread tests the stop flag at the top of every iteration; stop() sets   *)
(* the flag, joins the thread for at most 5 s and then stops the pipeline. *)

(* _start_pipeline, lines 131 and 142-151: after `made` failed attempts    *)
(* there is no further attempt                                             *)
attempts_exhausted_late(made) == made >= max_retries + 1

attempts_exhausted(made) == made >= max_retries

(* line 170: while not self.stop_event.is_set()                            *)
loop_continues_always(flag) == TRUE

loop_continues(flag) == ~flag

InitThreads ==
    /\ Init
    /\ cfg = [lovable |-> FALSE, supabase |-> FALSE, auto |-> FALSE,
              send_interval |-> 0, path_override |-> FALSE]

UnchangedByThreads ==
    UNCHANGED <<files, now, cfg, state, last_send_ts, flushed, stats, ev, disk, wr, lk,
                last_attempt_ts, engine, an>>

(* DetectionService() has been constructed                                 *)
Construct ==
    /\ phase = "down"
    /\ th.start_pc = "idle"
    /\ phase' = "constructed"
    /\ UNCHANGED <<consecutive_errors, no_frame_run, pipeline, stop_event, th>>
    /\ UnchangedByThreads

(* start() is called, line 110                                             *)
BeginStart ==
    /\ phase = "constructed"
    /\ th.start_pc = "idle"
    /\ th' = [th EXCEPT !.start_pc = "starting"]
    /\ UNCHANGED <<phase, consecutive_errors, no_frame_run, pipeline, stop_event>>
    /\ UnchangedByThreads

(* one pass of the for loop of _start_pipeline called from start(); on     *)
(* success lines 111-114 create and start the loop thread                  *)
StartAttempt(ok) ==
    /\ th.start_pc = "starting"
    /\ IF ok
       THEN /\ pipeline' = "started"
            /\ phase' = "running"
            /\ th' = [th EXCEPT !.start_pc = "done",
                                !.start_attempts = @ + 1,
                                !.worker = "alive", !.loop_pc = "top"]
       ELSE /\ pipeline' = pipeline
            /\ IF attempts_exhausted(th.start_attempts + 1)
               THEN /\ phase' = "down"          \* SystemExit leaves start()
                    /\ th' = [th EXCEPT !.start_pc = "failed",
                                        !.start_attempts = @ + 1]
               ELSE /\ phase' = phase
                    /\ th' = [th EXCEPT !.start_attempts = @ + 1]
    /\ UNCHANGED <<consecutive_errors, no_frame_run, stop_event>>
    /\ UnchangedByThreads

(* line 170: the loop thread tests the flag                                *)
LoopTop ==
    /\ th.worker = "alive"
    /\ th.loop_pc = "top"
    /\ th' = IF loop_continues(stop_event)
             THEN [th EXCEPT !.loop_pc = "iter"]
             ELSE [th EXCEPT !.worker = "exited", !.loop_pc = "-"]
    /\ UNCHANGED <<phase, consecutive_errors, no_frame_run, pipeline, stop_event>>
    /\ UnchangedByThreads

(* lines 171-311: one iteration up to its end or up to _reconnect_camera;  *)
(* a stopped pipeline gives no frame                                       *)
LoopIter(got_frame) ==
    /\ th.worker = "alive"
    /\ th.loop_pc = "iter"
    /\ got_frame => pipeline = "started"
    /\ IF got_frame
       THEN /\ consecutive_errors' = errors_on_frame(consecutive_errors)
            /\ no_frame_run' = 0
            /\ th' = [th EXCEPT !.loop_pc = "top"]
       ELSE /\ consecutive_errors' = consecutive_errors + 1
            /\ no_frame_run' = no_frame_run + 1
            /\ th' = [th EXCEPT !.loop_pc =
                         IF needs_reconnect(consecutive_errors + 1)
                         THEN "reconnect" ELSE "top"]
    /\ UNCHANGED <<phase, pipeline, stop_event>>
    /\ UnchangedByThreads

(* _reconnect_camera, lines 316-322: stop the pipeline, sleep              *)
ReconnectStop ==
    /\ th.worker = "alive"
    /\ th.loop_pc = "reconnect"
    /\ pipeline' = "stopped"
    /\ th' = [th EXCEPT !.loop_pc = "restart", !.re_attempts = 0]
    /\ UNCHANGED <<phase, consecutive_errors, no_frame_run, stop_event>>
    /\ UnchangedByThreads

(* one pass of the for loop of _start_pipeline called from                 *)
(* _reconnect_camera, line 323; SystemExit ends the loop thread            *)
ReconnectAttempt(ok) ==
    /\ th.worker = "alive"
    /\ th.loop_pc = "restart"
    /\ IF ok
       THEN /\ pipeline' = "started"
            /\ consecutive_errors' = 0
            /\ no_frame_run' = 0
            /\ phase' = phase
            /\ th' = [th EXCEPT !.loop_pc = "top", !.re_attempts = @ + 1]
       ELSE /\ UNCHANGED <<pipeline, consecutive_errors, no_frame_run>>
            /\ IF attempts_exhausted(th.re_attempts + 1)
               THEN /\ phase' = IF phase = "running" THEN "loop_dead" ELSE phase
                    /\ th' = [th EXCEPT !.worker = "exited", !.loop_pc = "-",
                                        !.re_attempts = @ + 1]
               ELSE /\ phase' = phase
                    /\ th' = [th EXCEPT !.re_attempts = @ + 1]
    /\ UNCHANGED stop_event
    /\ UnchangedByThreads

(* stop(), line 118 *)
StopSet ==
    /\ th.start_pc = "done"
    /\ th.stop_pc = "idle"
    /\ stop_event' = TRUE
    /\ th' = [th EXCEPT !.stop_pc = "join"]
    /\ UNCHANGED <<phase, consecutive_errors, no_frame_run, pipeline>>
    /\ UnchangedByThreads

(* stop(), lines 119-120: join returns when the thread has ended, or after *)
(* 5 s while the thread is still inside an iteration (the frame wait alone *)
(* may take 5 s, a POST 30 s, a reconnect 2 s per attempt)                 *)
StopJoin(timed_out) ==
    /\ th.stop_pc = "join"
    /\ IF timed_out
       THEN th.worker = "alive" /\ th.loop_pc # "top"
       ELSE th.worker # "alive"
    /\ th' = [th EXCEPT !.stop_pc = "release"]
    /\ UNCHANGED <<phase, consecutive_errors, no_frame_run, pipeline, stop_event>>
    /\ UnchangedByThreads

(* stop(), lines 121-124: pipeline.stop() *)
StopRelease ==
    /\ th.stop_pc = "release"
    /\ pipeline' = "stopped"
    /\ phase' = "stopped"
    /\ th' = [th EXCEPT !.stop_pc = "done"]
    /\ UNCHANGED <<consecutive_errors, no_frame_run, stop_event>>
    /\ UnchangedByThreads

LoopThread ==
    \/ LoopTop
    \/ \E got_frame \in BOOLEAN : LoopIter(got_frame)
    \/ ReconnectStop
    \/ \E ok \in BOOLEAN : ReconnectAttempt(ok)

NextThreads ==
    \/ Construct
    \/ BeginStart
    \/ \E ok \in BOOLEAN : StartAttempt(ok)
    \/ LoopThread
    \/ StopSet
    \/ \E timed_out \in BOOLEAN : StopJoin(timed_out)
    \/ StopRelease

(* every step of the loop thread ends within its timeout, so the thread    *)
(* keeps taking steps while it has one to take                             *)
SpecThreads == InitThreads /\ [][NextThreads]_vars /\ WF_vars(LoopThread)

----------------------------------------------------------------------------
(* Claims about the threads (SpecThreads).                                 *)

(* C12: start() tries to start the pipeline at most 5 times and not again  *)
(* after a success; when all 5 attempts fail start() ends with SystemExit, *)
(* and the loop thread does not exist then or at any later time; a loop    *)
(* thread exists only after a start that succeeded.                        *)
C12_StartRefusesAfterFiveFailures ==
    [][ /\ th'.start_attempts <= 5
        /\ th'.start_pc = "failed" =>
              /\ th'.start_attempts = 5
              /\ th'.worker = "none"
              /\ pipeline' = "stopped"
              /\ phase' = "down"
        /\ th'.worker # "none" => th'.start_pc = "done" 
        /\ th.start_pc \in {"done", "failed"} =>
              /\ th'.start_pc = th.start_pc
              /\ th'.start_attempts = th.start_attempts
      ]_vars

(* C12 witness: the fifth attempt failed and start() raised.               *)
C12_Witness ==
    /\ th.start_pc = "failed"
    /\ th.start_attempts = max_retries
    /\ th.worker = "none"

C14_DeviceReleasedBeforeThreadEnds ==
    [][ /\ (stop_event' /\ th'.worker = "exited") => pipeline' = "stopped"
        /\ (th.stop_pc = "release" /\ th'.stop_pc = "done") =>
              th.worker = "exited"
      ]_vars

----------------------------------------------------------------------------
(* SpecPublish: the loop thread's publish (lines 238-246) and the HTTP     *)
(* accessors (lines 439-483), one assignment or one read per step, under   *)
(* the SharedState lock.                                                   *)

(* what the camera shows at time t: a different scene at each next time    *)
SceneSeq ==
    << <<>>,
       <<Box("mealybug", 60)>>,
       <<Box("chrysanthemum", 90), Box("mealybug", 40)>>,
       <<Box("mealybug", 40)>> >>

scene_at(t) == SceneSeq[(t % Len(SceneSeq)) + 1]

(* lines 232-235 and 238-246: the values the loop thread is about to       *)
(* store; cv2.imencode may fail, and then the buffer is None               *)
publish_values(st, boxes, t, success) ==
    IF success THEN publish(st, boxes, t)
    ELSE [publish(st, boxes, t) EXCEPT !.latest_jpeg_buffer = None]

(* lines 239-246, in order *)
PublishFields ==
    <<"latest_frame", "latest_jpeg_buffer", "latest_timestamp", "status",
      "confidence", "object_count", "avg_fps", "last_send_error">>

(* the fields of SharedState each accessor reads, in order                 *)
read_fields(accessor) ==
    IF accessor = "get_snapshot" THEN <<"latest_frame">>
    ELSE IF accessor = "get_cached_jpeg_stream" THEN <<"latest_jpeg_buffer">>
    ELSE <<"status", "confidence", "object_count", "avg_fps", "latest_timestamp",
           "last_send_response", "last_send_error", "supabase_last_response",
           "supabase_last_error">>

Accessors == {"get_snapshot", "get_cached_jpeg_stream", "get_status"}

(* mutant: an accessor that reads without the lock                         *)
reader_locks_never(accessor) == FALSE

(* lines 441, 464, 469: with self.lock                                     *)
reader_locks(accessor) == TRUE

InitPublish ==
    /\ Init
    /\ cfg = [lovable |-> FALSE, supabase |-> FALSE, auto |-> FALSE,
              send_interval |-> 0, path_override |-> FALSE]

UnchangedByPublish ==
    UNCHANGED <<phase, files, now, cfg, consecutive_errors, no_frame_run, last_send_ts,
                pipeline, stop_event, flushed, stats, ev, disk, wr, th, last_attempt_ts,
                engine, an>>

(* line 238: the loop thread takes the lock with the values of its frame   *)
PublishBegin(success) ==
    /\ lk.holder = "none"
    /\ lk.wpc = 0
    /\ lk' = [lk EXCEPT !.holder = "loop", !.wpc = 1,
                        !.pending = publish_values(state, scene_at(now), now, success)]
    /\ UNCHANGED state
    /\ UnchangedByPublish

(* lines 239-246: one assignment *)
PublishWrite ==
    /\ lk.holder = "loop"
    /\ lk.wpc \in 1..Len(PublishFields)
    /\ state' = [state EXCEPT ![PublishFields[lk.wpc]] = lk.pending[PublishFields[lk.wpc]]]
    /\ lk' = [lk EXCEPT !.wpc = @ + 1]
    /\ UnchangedByPublish

(* the with-block ends: the lock is released                               *)
PublishEnd ==
    /\ lk.holder = "loop"
    /\ lk.wpc = Len(PublishFields) + 1
    /\ lk' = [lk EXCEPT !.holder = "none", !.wpc = 0, !.pending = <<>>]
    /\ UNCHANGED state
    /\ UnchangedByPublish

(* an HTTP thread enters an accessor                                       *)
ReadBegin(accessor) ==
    /\ lk.reader = "none"
    /\ accessor \in Accessors
    /\ reader_locks(accessor) => lk.holder = "none"
    /\ lk' = [lk EXCEPT !.holder = IF reader_locks(accessor) THEN "http" ELSE @,
                        !.reader = accessor, !.rpc = 1, !.view = SharedState]
    /\ UNCHANGED state
    /\ UnchangedByPublish

(* the accessor reads one field *)
ReadField ==
    /\ lk.reader # "none"
    /\ lk.rpc \in 1..Len(read_fields(lk.reader))
    /\ lk' = [lk EXCEPT !.rpc = @ + 1,
                        !.view = [@ EXCEPT ![read_fields(lk.reader)[lk.rpc]] =
                                     state[read_fields(lk.reader)[lk.rpc]]]]
    /\ UNCHANGED state
    /\ UnchangedByPublish

(* the accessor releases the lock and returns what it read                 *)
ReadEnd ==
    /\ lk.reader # "none"
    /\ lk.rpc = Len(read_fields(lk.reader)) + 1
    /\ lk' = [lk EXCEPT !.holder = IF @ = "http" THEN "none" ELSE @,
                        !.reader = "none", !.rpc = 0]
    /\ UNCHANGED state
    /\ UnchangedByPublish

NextPublish ==
    \/ Tick
    \/ \E success \in BOOLEAN : PublishBegin(success)
    \/ PublishWrite
    \/ PublishEnd
    \/ \E accessor \in Accessors : ReadBegin(accessor)
    \/ ReadField
    \/ ReadEnd

SpecPublish == InitPublish /\ [][NextPublish]_vars

----------------------------------------------------------------------------
(* Claims about SharedState under concurrent access (SpecPublish).         *)

(* the frame fields of st all come from the frame captured at              *)
(* st.latest_timestamp, or no frame has been published                     *)
FromOneFrame(st) ==
    IF st.latest_timestamp = 0
    THEN /\ st.latest_frame = None /\ st.latest_jpeg_buffer = None
         /\ st.status = "noObjects" /\ st.confidence = None
         /\ st.object_count = 0 /\ st.avg_fps = 0
    ELSE LET boxes == scene_at(st.latest_timestamp)
             summary == summarize_detections(boxes)
         IN  /\ st.latest_frame = Some(boxes)
             /\ st.latest_jpeg_buffer \in {None, Some(boxes)}
             /\ st.status = summary.status
             /\ st.confidence = summary.confidence
             /\ st.object_count = summary.count
             /\ st.avg_fps = fps_value(st.latest_timestamp)

(* the same for a status response                                          *)
StatusFromOneFrame(r) ==
    IF r.lastFrameTs = 0
    THEN r.status = "noObjects" /\ r.confidence = None
         /\ r.objectCount = 0 /\ r.avgFps = 0
    ELSE LET summary == summarize_detections(scene_at(r.lastFrameTs))
         IN  /\ r.status = summary.status
             /\ r.confidence = summary.confidence
             /\ r.objectCount = summary.count
             /\ r.avgFps = fps_value(r.lastFrameTs)

(* C15: whenever the loop thread is not inside its publish, the frame, the *)
(* encoded buffer, the timestamp, the status, the confidence, the count    *)
(* and the fps in SharedState all come from one frame, the buffer being    *)
(* that frame's encoding when present; an accessor reads only such a       *)
(* state, so a status response never mixes two frames.                     *)
C15_ReadersSeeOneFrame ==
    /\ lk.holder # "loop" => FromOneFrame(state)
    /\ lk.reader # "none" => lk.holder # "loop"
    /\ (lk.reader = "none" /\ lk.view # <<>>) => StatusFromOneFrame(get_status(lk.view))

(* C15 witness: a status response read between two publishes shows the     *)
(* first frame while a later frame's publish is in progress.               *)
C15_Witness ==
    /\ lk.reader = "none" /\ lk.view # <<>>
    /\ lk.view.latest_timestamp > 0
    /\ lk.holder = "loop" /\ lk.wpc > 3
    /\ state.latest_timestamp > lk.view.latest_timestamp
    /\ state.status # lk.view.status

(* C16: in every state of SharedState that an accessor can see, and in     *)
(* every status response, the status noObjects comes with no confidence.   *)
C16_NoObjectsHasNoConfidence ==
    /\ (lk.holder # "loop" /\ state.status = "noObjects") => state.confidence = None
    /\ (lk.holder # "loop" /\ get_status(state).status = "noObjects")
          => get_status(state).confidence = None
    /\ (lk.reader = "none" /\ lk.view # <<>> /\ get_status(lk.view).status = "noObjects")
          => get_status(lk.view).confidence = None

(* C16 witness: a frame whose only box is below the threshold has been     *)
(* published after a frame with a confidence, and a status response for it *)
(* has been returned.                                                      *)
C16_Witness ==
    /\ lk.holder = "none" /\ lk.reader = "none" /\ lk.view # <<>>
    /\ state.latest_frame = Some(<<Box("mealybug", 40)>>)
    /\ lk.view.latest_timestamp = state.latest_timestamp
    /\ get_status(lk.view).status = "noObjects"
    /\ get_status(lk.view).confidence = None

----------------------------------------------------------------------------
(* Claims about the submission outcomes in SharedState (SpecLoop).         *)

(* the step attempted the primary endpoint / the secondary sink            *)
AttemptedPrimary == ev'.op = "iter" /\ ev'.lov \in {"ok", "fail"}
AttemptedSecondary == ev'.op = "iter" /\ ev'.sup \in {"ok", "fail"}

(* C17: a sink's last response and last error change only in a step that   *)
(* attempts that sink; a successful attempt records the response and       *)
(* clears the error, a failed one records the error.  Publishing a frame,  *)
(* an unrelated loop error and an attempt to the other sink leave them     *)
(* alone.                                                                  *)
C17_SinkOutcomeOnlyFromOwnAttempt ==
    [][ /\ ~AttemptedPrimary =>
              /\ state'.last_send_response = state.last_send_response
              /\ state'.last_send_error = state.last_send_error
        /\ ~AttemptedSecondary =>
              /\ state'.supabase_last_response = state.supabase_last_response
              /\ state'.supabase_last_error = state.supabase_last_error
        /\ (AttemptedPrimary /\ ev'.lov = "ok") =>
              state'.last_send_response = "response" /\ state'.last_send_error = "None"
        /\ (AttemptedPrimary /\ ev'.lov = "fail") =>
              state'.last_send_error = "RequestException"
        /\ (AttemptedSecondary /\ ev'.sup = "ok") =>
              /\ state'.supabase_last_response = "success"
              /\ state'.supabase_last_error = "None"
      ]_vars

(* the first part of C17 alone: an iteration that publishes a frame and    *)
(* submits nothing keeps the primary sink's last error (line 246 does not) *)
C17_PublishKeepsPrimaryError ==
    [][ (ev'.op = "iter" /\ ev'.frame = "ok" /\ ev'.raised = "None" /\ ev'.lov = "-")
           => state'.last_send_error = state.last_send_error ]_vars

(* the step is an automatic submission with both sinks configured whose    *)
(* frame was encoded                                                       *)
SubmittedToBoth ==
    /\ ev'.op = "iter" /\ ev'.by = "submission"
    /\ lovable_enabled(cfg) /\ supabase_enabled(cfg)
    /\ ev'.lov # "skip"

(* C18: in an automatic submission with both sinks configured each sink is *)
(* attempted, whatever the other's outcome, and the primary's recorded     *)
(* outcome is the outcome of its own attempt whatever the secondary did.   *)
C18_SinksAttemptedIndependently ==
    [][ SubmittedToBoth =>
          /\ ev'.lov \in {"ok", "fail"}
          /\ ev'.sup \in {"ok", "fail"}
          /\ state'.last_send_response = after_lovable(state, ev'.lov).last_send_response
          /\ state'.last_send_error =
                after_lovable(publish(state, LoopScene, now), ev'.lov).last_send_error
      ]_vars

----------------------------------------------------------------------------
(* SpecInterval: the acquisition loop with automatic submission on, a      *)
(* minimum interval of one clock unit between submissions, and the clock   *)
(* advancing.                                                              *)

InitInterval ==
    /\ Init
    /\ cfg.auto
    /\ cfg.send_interval = 1
    /\ ~cfg.path_override

NextInterval ==
    \/ Tick
    \/ InitNoFlush
    \/ \E io \in {"ok", "fail"} : InitFlush({}, io)
    \/ InitCleanup("ok")
    \/ Start(0)
    \/ IterPublish(LoopScene)
    \/ \E o \in Outcomes(cfg) : IterSubmit(LoopScene, o)

SpecInterval == InitInterval /\ [][NextInterval]_vars

(* C19: the loop calls _send_detection only with automatic submission on,  *)
(* a sink configured and, the interval being positive, at least the        *)
(* interval after the previous automatic attempt to a sink; so two         *)
(* attempts are never closer together than the interval.                   *)
C19_SubmissionsSpacedByInterval ==
    [][ (ev'.op = "iter" /\ ev'.by = "submission") =>
          /\ cfg.auto
          /\ lovable_enabled(cfg) \/ supabase_enabled(cfg)
          /\ (cfg.send_interval > 0 /\ last_attempt_ts > 0)
                => now - last_attempt_ts >= cfg.send_interval
      ]_vars

----------------------------------------------------------------------------
(* SpecManual: the loop and the manual trigger (POST /detect) of a running *)
(* service, with every combination of configured sinks.                    *)

(* trigger_detection, lines 493-516: the dictionary it returns.  An        *)
(* exception in inference, analysis or submission is caught at line 514.   *)
(* mutant: trigger_detection without the test of lines 493-494             *)
trigger_result_without_frame_test(st, inf) ==
    IF inf = "raise" THEN "error" ELSE "success"

trigger_result(st, inf) ==
    IF st.latest_frame = None THEN "no_frame_available"
    ELSE IF inf = "raise" THEN "error"
    ELSE "success"

(* what trigger_detection lets through to the HTTP route                   *)
trigger_raises(st, inf) == "None"

(* mutant: _send_detection_with_crops recording the skip of line 526 as    *)
(* the sink's last error                                                   *)
send_with_crops_state_records_skip(st, post) ==
    IF post = "ok"
    THEN [st EXCEPT !.last_send_response = "response", !.last_send_error = "None"]
    ELSE IF post = "fail" THEN [st EXCEPT !.last_send_error = "RequestException"]
    ELSE [st EXCEPT !.last_send_error = "disabled"]

(* _send_detection_with_crops, lines 522-527 and 559-577 *)
send_with_crops_state(st, post) ==
    IF post = "ok"
    THEN [st EXCEPT !.last_send_response = "response", !.last_send_error = "None"]
    ELSE IF post = "fail" THEN [st EXCEPT !.last_send_error = "RequestException"]
    ELSE st

(* the POST of line 560 is reached with a frame, after inference and       *)
(* analysis, and only with the endpoint's credentials (lines 522-527)      *)
TriggerOutcomes(c, st) ==
    { o \in [inf : {"ok", "raise", "-"}, post : {"ok", "fail", "skip"}] :
        /\ (o.inf = "-") = (st.latest_frame = None)
        /\ (o.post = "skip") = (o.inf # "ok" \/ ~lovable_enabled(c)) }

(* trigger_detection, lines 485-516, called by the /detect route           *)
Trigger(o) ==
    /\ phase = "running"
    /\ o \in TriggerOutcomes(cfg, state)
    /\ state' = send_with_crops_state(state, o.post)
    /\ ev' = [NoEv EXCEPT !.op = "trigger", !.by = "manual", !.lov = o.post,
                          !.inf = o.inf,
                          !.raised = trigger_raises(state, o.inf),
                          !.result = trigger_result(state, o.inf)]
    /\ UNCHANGED <<phase, files, now, cfg, consecutive_errors, no_frame_run, last_send_ts,
                   pipeline, stop_event, flushed, stats>>
    /\ UnchangedWrite

(* get_snapshot, lines 439-450: the JPEG bytes of the latest frame, None   *)
(* when there is no frame or cv2.imencode fails                            *)
get_snapshot(st, success) ==
    IF st.latest_frame = None THEN None
    ELSE IF success THEN Some(<<"jpeg", st.latest_frame[1]>>)
    ELSE None

(* flask_app.snapshot, lines 51-57: the HTTP status of the response        *)
snapshot_route(payload) == IF payload = None THEN 503 ELSE 200

(* flask_app.detect, lines 75-79: the HTTP status of the response          *)
detect_route(result) == IF result = "success" THEN 200 ELSE 503

(* GET /snapshot *)
Snapshot(success) ==
    /\ phase = "running"
    /\ success \in BOOLEAN
    /\ ev' = [NoEv EXCEPT !.op = "snapshot", !.by = "manual",
                          !.result = IF get_snapshot(state, success) = None
                                     THEN "None" ELSE "jpeg"]
    /\ UNCHANGED <<phase, files, now, cfg, state, consecutive_errors, no_frame_run,
                   last_send_ts, pipeline, stop_event, flushed, stats>>
    /\ UnchangedWrite

InitManual ==
    /\ Init
    /\ ~cfg.path_override
    /\ cfg.send_interval = 0

NextManual ==
    \/ InitNoFlush
    \/ \E io \in {"ok", "fail"} : InitFlush({}, io)
    \/ InitCleanup("ok")
    \/ Start(0)
    \/ IterPublish(LoopScene)
    \/ \E o \in Outcomes(cfg) : IterSubmit(LoopScene, o)
    \/ \E o \in TriggerOutcomes(cfg, state) : Trigger(o)
    \/ \E success \in BOOLEAN : Snapshot(success)

SpecManual == InitManual /\ [][NextManual]_vars

(* C20: a sink without its credentials is never attempted, by the          *)
(* constructor, the loop or the manual trigger, while a configured sink is *)
(* skipped only when the frame could not be encoded; with no sink          *)
(* configured an iteration hands nothing to submission, raises nothing,    *)
(* publishes its frame and leaves the loop running; a manual trigger       *)
(* returns a result and raises nothing, whatever is configured.            *)
C20_MissingCredentialsDisableOnlyTheSink ==
    [][ /\ ~lovable_enabled(cfg) =>
              /\ ev'.lov \notin {"ok", "fail"}
              /\ state'.last_send_response = "None"
        /\ ~supabase_enabled(cfg) =>
              /\ ev'.sup \notin {"ok", "fail"}
              /\ ev'.op # "flush"
              /\ ev'.op \in {"iter", "trigger"} => files' = files
              /\ state'.supabase_last_response = "None"
              /\ state'.supabase_last_error = "None"
        /\ (ev'.op = "iter" /\ ~lovable_enabled(cfg) /\ ~supabase_enabled(cfg)) =>
              /\ ev'.by # "submission"
              /\ ev'.raised = "None"
              /\ state' = publish(state, LoopScene, now)
              /\ phase' = "running"
        /\ (ev'.op = "iter" /\ ev'.by = "submission" /\ lovable_enabled(cfg)
                /\ ev'.lov = "skip") => state'.last_send_error = "RuntimeError"
        /\ (ev'.op = "iter" /\ ev'.by = "submission" /\ supabase_enabled(cfg)
                /\ ev'.sup = "skip") => state'.last_send_error = "RuntimeError"
        /\ ev'.op = "trigger" =>
              /\ ev'.raised = "None"
              /\ ev'.result \in {"success", "error", "no_frame_available"}
              /\ phase' = "running"
      ]_vars

(* C20 witness: with no sink configured and automatic submission on, the   *)
(* loop has published a frame and a manual trigger on it has returned      *)
(* success without posting anything.                                       *)
C20_Witness ==
    /\ cfg.auto /\ ~lovable_enabled(cfg) /\ ~supabase_enabled(cfg)
    /\ state.latest_frame # None
    /\ ev.op = "trigger" /\ ev.result = "success" /\ ev.lov = "skip"
    /\ phase = "running"

----------------------------------------------------------------------------
(* Claims about the HTTP routes (SpecManual).                              *)

(* C21: while no frame has been published, GET /snapshot gets None from    *)
(* get_snapshot and answers 503, and POST /detect gets success = false     *)
(* with no_frame_available from trigger_detection and answers 503; the     *)
(* trigger runs no inference, posts nothing and changes neither            *)
(* SharedState nor the queue.                                              *)
C21_NoFrameAnswersNotReady ==
    [][ state.latest_frame = None =>
          /\ ev'.op = "snapshot" =>
                /\ ev'.result = "None"
                /\ \A success \in BOOLEAN :
                      snapshot_route(get_snapshot(state, success)) = 503
          /\ ev'.op = "trigger" =>
                /\ ev'.result = "no_frame_available"
                /\ detect_route(ev'.result) = 503
                /\ ev'.inf = "-"
                /\ ev'.lov = "skip"
                /\ ev'.raised = "None"
                /\ state' = state
                /\ files' = files
      ]_vars

(* C21 witness: a running service with every sink configured has answered  *)
(* a manual trigger before its first frame.                                *)
C21_Witness ==
    /\ phase = "running"
    /\ lovable_enabled(cfg) /\ supabase_enabled(cfg)
    /\ state.latest_frame = None
    /\ ev.op = "trigger" /\ ev.result = "no_frame_available"

----------------------------------------------------------------------------
(* SpecEngine: the threads that call the YOLO model.  The loop thread      *)
(* calls it at line 191 for every frame; a request thread of the HTTP      *)
(* server calls it at line 498 inside trigger_detection.  Entering and     *)
(* leaving self.model are separate steps.                                  *)

InitEngine ==
    /\ Init
    /\ cfg.lovable \in BOOLEAN
    /\ ~cfg.supabase /\ ~cfg.auto /\ cfg.send_interval = 0 /\ ~cfg.path_override

UnchangedByEngine ==
    UNCHANGED <<phase, files, now, cfg, consecutive_errors, no_frame_run, last_send_ts,
                pipeline, stop_event, flushed, stats, disk, wr, th, lk, last_attempt_ts,
                an>>

(* lines 172-191: the loop thread has its frame and enters self.model      *)
LoopInfer ==
    /\ phase = "running"
    /\ ~stop_event
    /\ engine["loop"].pc = "idle"
    /\ engine' = [engine EXCEPT !["loop"] = [pc |-> "model", frame |-> Some(scene_at(now))]]
    /\ ev' = [NoEv EXCEPT !.op = "infer", !.by = "loop"]
    /\ UNCHANGED state
    /\ UnchangedByEngine

(* lines 192-246: self.model returns, the loop thread publishes            *)
LoopInferred ==
    /\ engine["loop"].pc = "model"
    /\ engine' = [engine EXCEPT !["loop"] = [pc |-> "idle", frame |-> None]]
    /\ state' = publish(state, engine["loop"].frame[1], now)
    /\ ev' = [NoEv EXCEPT !.op = "iter", !.frame = "ok"]
    /\ UnchangedByEngine

(* lines 487-498: a request thread reads the latest frame and, if there is *)
(* one, enters self.model                                                  *)
TriggerInfer(t) ==
    /\ phase = "running"
    /\ t \in EngineThreads \ {"loop"}
    /\ engine[t].pc = "idle"
    /\ engine' = [engine EXCEPT ![t] =
                     IF state.latest_frame = None THEN @
                     ELSE [pc |-> "model", frame |-> state.latest_frame]]
    /\ ev' = [NoEv EXCEPT !.op = IF state.latest_frame = None THEN "trigger" ELSE "infer",
                          !.by = t,
                          !.result = IF state.latest_frame = None
                                     THEN trigger_result(state, "-") ELSE "-"]
    /\ UNCHANGED state
    /\ UnchangedByEngine

(* lines 499-516: self.model returns or raises in the request thread, the  *)
(* analysis is submitted and the result returned                           *)
TriggerInferred(t, o) ==
    /\ t \in EngineThreads \ {"loop"}
    /\ engine[t].pc = "model"
    /\ o \in TriggerOutcomes(cfg, [state EXCEPT !.latest_frame = engine[t].frame])
    /\ engine' = [engine EXCEPT ![t] = [pc |-> "idle", frame |-> None]]
    /\ state' = send_with_crops_state(state, o.post)
    /\ ev' = [NoEv EXCEPT !.op = "trigger", !.by = t, !.lov = o.post, !.inf = o.inf,
                          !.result = trigger_result(
                              [state EXCEPT !.latest_frame = engine[t].frame], o.inf)]
    /\ UnchangedByEngine

NextEngine ==
    \/ Tick
    \/ InitNoFlush
    \/ InitCleanup("ok")
    \/ Start(0)
    \/ LoopInfer
    \/ LoopInferred
    \/ \E t \in EngineThreads \ {"loop"} : TriggerInfer(t)
    \/ \E t \in EngineThreads \ {"loop"},
          o \in [inf : {"ok", "raise", "-"}, post : {"ok", "fail", "skip"}] :
          TriggerInferred(t, o)

SpecEngine == InitEngine /\ [][NextEngine]_vars

(* the threads that are inside self.model                                  *)
InsideModel == { t \in EngineThreads : engine[t].pc = "model" }

(* C22: only the loop thread is ever inside the inference engine, so no    *)
(* two threads are inside it at the same time.                             *)
C22_OnlyLoopRunsInference ==
    /\ InsideModel \subseteq {"loop"}
    /\ Cardinality(InsideModel) <= 1

----------------------------------------------------------------------------
(* detection_analyzer.calculate_iou.  A box is <<xmin, ymin, xmax, ymax>>  *)
(* with integer coordinates.  The float the function returns is kept as    *)
(* the exact fraction <<numerator, denominator>>; 0.0 is <<0, 1>>.         *)

MaxCoord == 3       \* box coordinates range over 0..MaxCoord

Coords == 0..MaxCoord

(* well-formed boxes: xmin <= xmax and ymin <= ymax                        *)
IouBoxes ==
    { b \in Coords \X Coords \X Coords \X Coords : b[1] <= b[3] /\ b[2] <= b[4] }

box_area(b) == (b[3] - b[1]) * (b[4] - b[2])

(* mutant: calculate_iou without the test of lines 64-65                   *)
calculate_iou_without_overlap_test(box1, box2) ==
    LET inter_area == (Min(box1[3], box2[3]) - Max(box1[1], box2[1]))
                      * (Min(box1[4], box2[4]) - Max(box1[2], box2[2]))
        union_area == box_area(box1) + box_area(box2) - inter_area
    IN  IF union_area = 0 THEN <<0, 1>> ELSE <<inter_area, union_area>>

(* mutant: calculate_iou whose union counts the intersection twice         *)
calculate_iou_union_of_sums(box1, box2) ==
    LET inter_x_min == Max(box1[1], box2[1])
        inter_y_min == Max(box1[2], box2[2])
        inter_x_max == Min(box1[3], box2[3])
        inter_y_max == Min(box1[4], box2[4])
        inter_area == (inter_x_max - inter_x_min) * (inter_y_max - inter_y_min)
        union_area == box_area(box1) + box_area(box2)
    IN  IF inter_x_max < inter_x_min \/ inter_y_max < inter_y_min THEN <<0, 1>>
        ELSE IF union_area = 0 THEN <<0, 1>>
        ELSE <<inter_area, union_area>>

(* lines 53-77 *)
calculate_iou(box1, box2) ==
    LET inter_x_min == Max(box1[1], box2[1])
        inter_y_min == Max(box1[2], box2[2])
        inter_x_max == Min(box1[3], box2[3])
        inter_y_max == Min(box1[4], box2[4])
        inter_area == (inter_x_max - inter_x_min) * (inter_y_max - inter_y_min)
        union_area == box_area(box1) + box_area(box2) - inter_area
    IN  IF inter_x_max < inter_x_min \/ inter_y_max < inter_y_min THEN <<0, 1>>
        ELSE IF union_area = 0 THEN <<0, 1>>
        ELSE <<inter_area, union_area>>

(* the returned float equals 1.0, equals 0.0 *)
IouIsOne(f) == f[1] = f[2]
IouIsZero(f) == f[1] = 0

(* the service variables of a behaviour that only calls a pure function    *)
InitCall ==
    /\ phase = "down"
    /\ files = [p \in Paths |-> MissingFile]
    /\ now = 1
    /\ cfg = [lovable |-> FALSE, supabase |-> FALSE, auto |-> FALSE,
              send_interval |-> 0, path_override |-> FALSE]
    /\ state = SharedState
    /\ consecutive_errors = 0
    /\ no_frame_run = 0
    /\ last_send_ts = 0
    /\ pipeline = "stopped"
    /\ stop_event = FALSE
    /\ flushed = <<>>
    /\ stats = ZeroStats
    /\ ev = NoEv
    /\ disk = NoDisk
    /\ wr = NoWrite
    /\ th = NoThreads
    /\ lk = NoLock
    /\ last_attempt_ts = 0
    /\ engine = NoEngine

(* SpecIoU: one call of calculate_iou on any two well-formed boxes         *)
InitIoU ==
    /\ InitCall
    /\ an \in [op : {"input"}, box1 : IouBoxes, box2 : IouBoxes, iou : {<<0, 1>>}]

UnchangedByCall ==
    UNCHANGED <<phase, files, now, cfg, state, consecutive_errors, no_frame_run,
                last_send_ts, pipeline, stop_event, flushed, stats, ev, disk, wr, th, lk,
                last_attempt_ts, engine>>

CallIou ==
    /\ an.op = "input"
    /\ an' = [an EXCEPT !.op = "iou", !.iou = calculate_iou(an.box1, an.box2)]
    /\ UnchangedByCall

NextIoU == CallIou

SpecIoU == InitIoU /\ [][NextIoU]_vars

----------------------------------------------------------------------------
(* Claims about calculate_iou (SpecIoU).                                   *)

(* the two boxes share no area: apart, or touching along an edge or corner *)
NoOverlap(box1, box2) ==
    \/ Min(box1[3], box2[3]) <= Max(box1[1], box2[1])
    \/ Min(box1[4], box2[4]) <= Max(box1[2], box2[2])

(* C26 as stated: for every box b, degenerate ones included,               *)
(* calculate_iou(b, b) is 1.0.                                             *)
C26_IdenticalBoxesHaveIouOne ==
    (an.op = "iou" /\ an.box1 = an.box2) => IouIsOne(an.iou)

(* C26 amended: for every box b of positive width and height               *)
(* calculate_iou(b, b) is 1.0, and for a box of zero width or height it is *)
(* 0.0.                                                                    *)
C26_IdenticalBoxesOfPositiveArea ==
    (an.op = "iou" /\ an.box1 = an.box2) =>
        IF box_area(an.box1) > 0 THEN IouIsOne(an.iou) /\ an.iou[2] > 0
        ELSE an.iou = <<0, 1>>

(* C26 witness: the IoU of a box of positive area with itself              *)
C26_Witness ==
    /\ an.op = "iou" /\ an.box1 = an.box2
    /\ box_area(an.box1) > 0
    /\ an.iou = <<box_area(an.box1), box_area(an.box1)>>

(* C27: for two boxes that share no area, and for two boxes whose union    *)
(* area is 0, calculate_iou returns 0.0.                                   *)
C27_NoOverlapHasIouZero ==
    an.op = "iou" =>
        /\ NoOverlap(an.box1, an.box2) => IouIsZero(an.iou) /\ an.iou[2] > 0
        /\ (box_area(an.box1) = 0 /\ box_area(an.box2) = 0) => an.iou = <<0, 1>>

(* C27 witness: two boxes of positive area apart in both directions        *)
C27_Witness ==
    /\ an.op = "iou"
    /\ box_area(an.box1) > 0 /\ box_area(an.box2) > 0
    /\ an.box1[3] < an.box2[1] /\ an.box1[4] < an.box2[2]
    /\ an.iou = <<0, 1>>

----------------------------------------------------------------------------
(* detection_analyzer.analyze_detection_with_crops.  A detection is        *)
(* [cls, conf, xyxy]: class name, confidence in percent, box in pixels.    *)
(* The frame is FrameW x FrameH pixels.  Python's None and the empty list  *)
(* of detections take the same branch (lines 23 and 97) and are both <<>>. *)

FrameW == 5
FrameH == 5

MaxDets == 4        \* detections in one frame

Det(cls, conf, xyxy) == [cls |-> cls, conf |-> conf, xyxy |-> xyxy]

(* the detections a frame is made of: subjects and pests above and below   *)
(* the threshold, overlapping much, little, exactly 0.3 and not at all,    *)
(* one box reaching past the frame and one that is empty once clamped      *)
DetKinds ==
    { Det("chrysanthemum", 90, <<0, 0, 2, 2>>),
      Det("chrysanthemum", 60, <<2, 2, 5, 5>>),
      Det("chrysanthemum", 70, <<0, 0, 3, 3>>),
      Det("chrysanthemum", 40, <<0, 0, 2, 2>>),
      Det("chrysanthemum", 80, <<4, 0, 6, 2>>),
      Det("mealybug", 60, <<0, 0, 2, 1>>),
      Det("mealybug", 70, <<1, 1, 3, 3>>),
      Det("mealybug", 60, <<0, 0, 1, 4>>),
      Det("mealybug", 40, <<0, 0, 2, 1>>) }

DetLists == UNION { [1..n -> DetKinds] : n \in 0..MaxDets }

(* utils.safe_bbox_coords, lines 62-70 *)
safe_bbox_coords(b, w, h) ==
    << Max(0, Min(b[1], w - 1)), Max(0, Min(b[2], h - 1)),
       Max(0, Min(b[3], w - 1)), Max(0, Min(b[4], h - 1)) >>

(* mutant: the loop of lines 112-132 without the test of lines 114-115     *)
collect_below_threshold_too(boxes, classname) ==
    LET found == SelectSeq(boxes, LAMBDA b : b.cls = classname)
    IN  [i \in 1..Len(found) |->
            [bbox |-> safe_bbox_coords(found[i].xyxy, FrameW, FrameH),
             confidence |-> found[i].conf]]

(* lines 112-132: the kept detections of one class, in detection order     *)
collect(boxes, classname) ==
    LET found == SelectSeq(Kept(boxes), LAMBDA b : b.cls = classname)
    IN  [i \in 1..Len(found) |->
            [bbox |-> safe_bbox_coords(found[i].xyxy, FrameW, FrameH),
             confidence |-> found[i].conf]]

(* mutant: line 146 missing *)
limit_plants_unlimited(chrysanthemums) == chrysanthemums

(* line 146 *)
limit_plants(chrysanthemums) ==
    SubSeq(chrysanthemums, 1, Min(3, Len(chrysanthemums)))

(* mutant: line 160 with >= *)
iou_over_threshold_or_equal(iou) == 10 * iou[1] >= 3 * iou[2]

(* line 160: iou > 0.3 *)
iou_over_threshold(iou) == 10 * iou[1] > 3 * iou[2]

(* lines 157-165 *)
plant_status(plant, mealybugs) ==
    IF \E j \in 1..Len(mealybugs) :
          iou_over_threshold(calculate_iou(plant.bbox, mealybugs[j].bbox))
    THEN "diseased" ELSE "healthy"

(* lines 175-185: the crop rectangle, the box grown by 10% inside the      *)
(* frame; int() of a negative value is raised to 0 by max                  *)
crop_box(b, w, h) ==
    LET bbox_w == b[3] - b[1]
        bbox_h == b[4] - b[2]
    IN  << Max(0, (10 * b[1] - bbox_w) \div 10), Max(0, (10 * b[2] - bbox_h) \div 10),
           Min(w, (10 * b[3] + bbox_w) \div 10), Min(h, (10 * b[4] + bbox_h) \div 10) >>

(* line 186: cv2.imencode refuses an empty crop                            *)
crop_is_empty(c) == c[3] <= c[1] \/ c[4] <= c[2]

(* mutant: any diseased plant makes the frame diseased                     *)
overall_status_any_diseased(statuses) ==
    IF \A i \in 1..Len(statuses) : statuses[i] = "healthy" THEN "healthy"
    ELSE "diseased"

(* lines 190-196 *)
overall_status(statuses) ==
    IF \A i \in 1..Len(statuses) : statuses[i] = "healthy" THEN "healthy"
    ELSE IF \A i \in 1..Len(statuses) : statuses[i] = "diseased" THEN "diseased"
    ELSE "mixed"

RECURSIVE SumConf(_)
SumConf(plants) ==
    IF plants = <<>> THEN 0 ELSE Head(plants).confidence + SumConf(Tail(plants))

(* lines 97-143: what is returned when nothing is assessed                 *)
NoPlants ==
    [raised |-> "None", overall_status |-> "noObjects", plant_statuses |-> <<>>,
     plant_images_b64 |-> <<>>, confidence |-> None]

(* lines 80-212; the confidence is the fraction <<sum, count>>             *)
analyze_detection_with_crops(boxes) ==
    LET chrysanthemums == limit_plants(collect(boxes, "chrysanthemum"))
        mealybugs == collect(boxes, "mealybug")
        plant_statuses ==
            [i \in 1..Len(chrysanthemums) |->
                [order_num |-> i,
                 status |-> plant_status(chrysanthemums[i], mealybugs),
                 confidence |-> chrysanthemums[i].confidence]]
        crops == [i \in 1..Len(chrysanthemums) |->
                     crop_box(chrysanthemums[i].bbox, FrameW, FrameH)]
    IN  IF Len(boxes) = 0 \/ Len(collect(boxes, "chrysanthemum")) = 0 THEN NoPlants
        ELSE IF \E i \in 1..Len(crops) : crop_is_empty(crops[i])
        THEN [NoPlants EXCEPT !.raised = "Exception", !.overall_status = "-"]
        ELSE [raised |-> "None",
              overall_status |->
                  overall_status([i \in 1..Len(plant_statuses) |-> plant_statuses[i].status]),
              plant_statuses |-> plant_statuses,
              plant_images_b64 |-> crops,
              confidence |-> Some(<<SumConf(plant_statuses), Len(plant_statuses)>>)]

(* _send_detection_with_crops, lines 537-544: the crop images of the       *)
(* payload                                                                 *)
payload_plant_images(analysis) == analysis.plant_images_b64

(* raspberry-pi/send_detection.py, lines 101-105 *)
sender_plant_images(plant_image_paths) ==
    SubSeq(plant_image_paths, 1, Min(3, Len(plant_image_paths)))

(* SpecAnalyzer: one call of the fast summary, of the detailed assessment  *)
(* or of the stand-alone sender on any list of up to MaxDets detections    *)
InitAnalyzer ==
    /\ InitCall
    /\ an \in [op : {"input"}, boxes : DetLists, out : {<<>>}]

CallSummarize ==
    /\ an.op = "input"
    /\ an' = [an EXCEPT !.op = "summary", !.out = summarize_detections(an.boxes)]
    /\ UnchangedByCall

CallAnalyze ==
    /\ an.op = "input"
    /\ an' = [an EXCEPT !.op = "detail", !.out = analyze_detection_with_crops(an.boxes)]
    /\ UnchangedByCall

CallSender ==
    /\ an.op = "input"
    /\ an' = [an EXCEPT !.op = "sender", !.out = sender_plant_images(an.boxes)]
    /\ UnchangedByCall

NextAnalyzer ==
    \/ CallSummarize
    \/ CallAnalyze
    \/ CallSender

SpecAnalyzer == InitAnalyzer /\ [][NextAnalyzer]_vars

----------------------------------------------------------------------------
(* Claims about the analyzer (SpecAnalyzer).                               *)

(* the detections of the call that reach the confidence threshold          *)
ReachThreshold(boxes) == { i \in 1..Len(boxes) : boxes[i].conf >= CONF_THRESHOLD }

(* the unit pixels inside a box, for areas counted rather than computed    *)
Pixels(b) == { p \in (0..FrameW) \X (0..FrameH) :
                 b[1] <= p[1] /\ p[1] < b[3] /\ b[2] <= p[2] /\ p[2] < b[4] }

(* intersection over union of two boxes exceeds 0.30, by counting pixels   *)
OverlapExceeds30(a, b) ==
    10 * Cardinality(Pixels(a) \cap Pixels(b)) > 3 * Cardinality(Pixels(a) \cup Pixels(b))

(* C23: when no detection of the list reaches the threshold, the fast      *)
(* summary is (noObjects, None, 0) and the detailed assessment is          *)
(* noObjects with confidence None, no plant assessment and no crop.        *)
C23_NothingAboveThresholdIsNoObjects ==
    ReachThreshold(an.boxes) = {} =>
        /\ an.op = "summary" =>
              an.out = [status |-> "noObjects", confidence |-> None, count |-> 0]
        /\ an.op = "detail" =>
              /\ an.out.raised = "None"
              /\ an.out.overall_status = "noObjects"
              /\ an.out.confidence = None
              /\ an.out.plant_statuses = <<>>
              /\ an.out.plant_images_b64 = <<>>

(* C23 witness: the detailed assessment of a frame with a subject and a    *)
(* pest, both below the threshold.                                         *)
C23_Witness ==
    /\ an.op = "detail"
    /\ Len(an.boxes) = 2
    /\ an.boxes[1].cls = "chrysanthemum" /\ an.boxes[2].cls = "mealybug"
    /\ ReachThreshold(an.boxes) = {}
    /\ an.out.overall_status = "noObjects"

(* the statuses of the plant assessments of a detailed assessment          *)
PlantStatuses(out) == { out.plant_statuses[i].status : i \in 1..Len(out.plant_statuses) }

(* C24: with at least one plant assessment, the overall status is healthy  *)
(* exactly when every assessment is healthy, diseased exactly when every   *)
(* assessment is diseased, and mixed otherwise.                            *)
C24_OverallStatusFromPlantStatuses ==
    (an.op = "detail" /\ an.out.raised = "None" /\ an.out.plant_statuses # <<>>) =>
        /\ an.out.overall_status = "healthy" <=> PlantStatuses(an.out) = {"healthy"}
        /\ an.out.overall_status = "diseased" <=> PlantStatuses(an.out) = {"diseased"}
        /\ an.out.overall_status = "mixed" <=> PlantStatuses(an.out) = {"healthy", "diseased"}

(* C24 witness: three plants, not all of one status                        *)
C24_Witness ==
    /\ an.op = "detail" /\ an.out.raised = "None"
    /\ Len(an.out.plant_statuses) = 3
    /\ PlantStatuses(an.out) = {"healthy", "diseased"}
    /\ an.out.overall_status = "mixed"

(* the boxes, clamped to the frame, of the kept detections of a class      *)
KeptBoxes(boxes, cls) ==
    { safe_bbox_coords(boxes[i].xyxy, FrameW, FrameH) :
        i \in { j \in ReachThreshold(boxes) : boxes[j].cls = cls } }

(* the i-th kept subject detection of the list, in detection order         *)
KeptSubject(boxes, i) ==
    LET idx == { j \in ReachThreshold(boxes) : boxes[j].cls = "chrysanthemum" }
        nth == CHOOSE j \in idx : Cardinality({ k \in idx : k <= j }) = i
    IN  boxes[nth]

(* C25: a retained subject is diseased exactly when some kept pest         *)
(* detection overlaps its box with IoU above 0.30, and healthy otherwise.  *)
C25_DiseasedIffPestOverlapsMoreThan30 ==
    (an.op = "detail" /\ an.out.raised = "None") =>
        \A i \in 1..Len(an.out.plant_statuses) :
            LET subject == safe_bbox_coords(KeptSubject(an.boxes, i).xyxy, FrameW, FrameH)
                linked == \E pest \in KeptBoxes(an.boxes, "mealybug") :
                             OverlapExceeds30(subject, pest)
            IN  /\ an.out.plant_statuses[i].status = "diseased" <=> linked
                /\ an.out.plant_statuses[i].status = "healthy" <=> ~linked

(* C25 witness: the subject (0,0,2,2) with the pest (1,1,3,3),             *)
(* intersection 1 over union 7 as 2500 over 17500, is healthy, and so is   *)
(* the frame.                                                              *)
C25_Witness ==
    /\ an.op = "detail" /\ an.out.raised = "None"
    /\ an.boxes = << Det("chrysanthemum", 90, <<0, 0, 2, 2>>),
                     Det("mealybug", 70, <<1, 1, 3, 3>>) >>
    /\ calculate_iou(<<0, 0, 2, 2>>, <<1, 1, 3, 3>>) = <<1, 7>>
    /\ an.out.plant_statuses[1].status = "healthy"
    /\ an.out.overall_status = "healthy"

(* C28: the fast summary of a frame whose kept detections include no       *)
(* subject is noObjects, kept pests or not.                                *)
C28_PestAloneIsNoObjects ==
    (an.op = "summary" /\ KeptBoxes(an.boxes, "chrysanthemum") = {}) =>
        an.out.status = "noObjects"

(* C29: the detailed assessment has min(3, k) plant assessments for k kept *)
(* subject detections, the i-th one numbered i and made from the i-th kept *)
(* subject in detection order, and one crop image per assessment; the      *)
(* payload of a submission carries at most 3 crop images.                  *)
C29_AtMostThreePlantsInDetectionOrder ==
    /\ (an.op = "detail" /\ an.out.raised = "None") =>
          LET k == Cardinality({ j \in ReachThreshold(an.boxes) :
                                   an.boxes[j].cls = "chrysanthemum" })
          IN  /\ Len(an.out.plant_statuses) = Min(3, k)
              /\ Len(an.out.plant_images_b64) = Len(an.out.plant_statuses)
              /\ Len(payload_plant_images(an.out)) <= 3
              /\ \A i \in 1..Len(an.out.plant_statuses) :
                    /\ an.out.plant_statuses[i].order_num = i
                    /\ an.out.plant_statuses[i].confidence = KeptSubject(an.boxes, i).conf
                    /\ an.out.plant_images_b64[i] =
                          crop_box(safe_bbox_coords(KeptSubject(an.boxes, i).xyxy,
                                                    FrameW, FrameH), FrameW, FrameH)
    /\ an.op = "sender" =>
          /\ Len(an.out) <= 3
          /\ an.out = SubSeq(an.boxes, 1, Len(an.out))

(* C29 witness: four kept subjects, the first three assessed               *)
C29_Witness ==
    /\ an.op = "detail" /\ an.out.raised = "None"
    /\ Len(an.boxes) = 4
    /\ \A i \in 1..4 : an.boxes[i].cls = "chrysanthemum" /\ an.boxes[i].conf >= CONF_THRESHOLD
    /\ an.boxes[1] # an.boxes[2] /\ an.boxes[3] # an.boxes[4]
    /\ Len(an.out.plant_statuses) = 3
    /\ Len(an.out.plant_images_b64) = 3

----------------------------------------------------------------------------
(* cleanup_utils.cleanup_images.  The directory is the sequence of its     *)
(* image files in iterdir() order; a file is [id, mtime, size, removable], *)
(* removable telling whether unlink() succeeds on it.  The call is made at *)
(* time ImagesNow with the three limits below (the function's parameters,  *)
(* sizes in whole units).                                                  *)

max_age_days == 2
max_count == 2
max_size_mb == 3

MaxImages == 3      \* image files in the directory
ImagesNow == 4

ImageKinds == [mtime : {1, 2, 3}, size : {1, 2}, removable : BOOLEAN]

(* the directories of up to max files, the file at position i having id i  *)
ImageDirs(max) ==
    UNION { { [i \in 1..n |-> [id |-> i, mtime |-> k[i].mtime, size |-> k[i].size,
                               removable |-> k[i].removable]] :
                k \in [1..n -> ImageKinds] } : n \in 0..max }

RECURSIVE InsertByMtime(_, _)
InsertByMtime(f, sorted) ==
    IF sorted = <<>> THEN <<f>>
    ELSE IF f.mtime < Head(sorted).mtime THEN <<f>> \o sorted
    ELSE <<Head(sorted)>> \o InsertByMtime(f, Tail(sorted))

(* line 198: image_files.sort(key=mtime), a stable sort, oldest first      *)
RECURSIVE SortByMtime(_)
SortByMtime(fs) ==
    IF fs = <<>> THEN <<>>
    ELSE InsertByMtime(fs[Len(fs)], SortByMtime(SubSeq(fs, 1, Len(fs) - 1)))

RECURSIVE SumSize(_)
SumSize(fs) == IF fs = <<>> THEN 0 ELSE Head(fs).size + SumSize(Tail(fs))

(* lines 203-204 *)
image_too_old(f) == ImagesNow - f.mtime > max_age_days

(* the ids unlinked among fs: unlink() raised OSError on the others        *)
Unlinked(fs) == { fs[i].id : i \in { j \in 1..Len(fs) : fs[j].removable } }

(* lines 200-212: the files the age rule leaves in remaining_files         *)
after_age_rule(fs) == SelectSeq(fs, LAMBDA f : ~(image_too_old(f) /\ f.removable))

(* lines 215-223: the files the count rule tries to remove, and the list   *)
(* it leaves                                                               *)
excess_count(remaining) == Max(0, Len(remaining) - max_count)
count_rule_victims(remaining) == SubSeq(remaining, 1, excess_count(remaining))
after_count_rule(remaining) ==
    SubSeq(remaining, excess_count(remaining) + 1, Len(remaining))

(* lines 226-235: the files the size rule pops, given the running total    *)
RECURSIVE size_rule_victims(_, _)
size_rule_victims(remaining, total_size) ==
    IF total_size > max_size_mb /\ remaining # <<>>
    THEN <<Head(remaining)>> \o
         size_rule_victims(Tail(remaining),
                           IF Head(remaining).removable
                           THEN total_size - Head(remaining).size ELSE total_size)
    ELSE <<>>

(* lines 141-253: the ids left in the directory and the statistics         *)
cleanup_images(dir) ==
    LET image_files == SortByMtime(dir)
        old == SelectSeq(image_files, image_too_old)
        remaining1 == after_age_rule(image_files)
        excess == count_rule_victims(remaining1)
        remaining2 == after_count_rule(remaining1)
        large == size_rule_victims(remaining2, SumSize(remaining2))
        remaining3 == SubSeq(remaining2, Len(large) + 1, Len(remaining2))
        removed == Unlinked(old) \cup Unlinked(excess) \cup Unlinked(large)
    IN  [on_disk |-> { i \in 1..Len(dir) : i \notin removed },
         removed_old |-> Cardinality(Unlinked(old)),
         removed_excess |-> Cardinality(Unlinked(excess)),
         removed_size |-> Cardinality(Unlinked(large)),
         total_before |-> Len(dir),
         total_after |-> Len(remaining3)]

(* SpecImages: one call of cleanup_images on any directory of up to        *)
(* MaxImages image files                                                   *)
InitImages ==
    /\ InitCall
    /\ an \in [op : {"input"}, dir : ImageDirs(MaxImages), out : {<<>>}]

CallCleanupImages ==
    /\ an.op = "input"
    /\ an' = [an EXCEPT !.op = "images", !.out = cleanup_images(an.dir)]
    /\ UnchangedByCall

NextImages == CallCleanupImages

SpecImages == InitImages /\ [][NextImages]_vars

(* the total size of the files of dir whose ids are in ids                 *)
SizeOnDisk(dir, ids) == SumSize(SelectSeq(dir, LAMBDA f : f.id \in ids))

(* C30: after cleanup_images returns, no image file left in the directory  *)
(* is older than the maximum age, at most max_count are left, their total  *)
(* size is within the budget, and no file was removed while an older one   *)
(* was kept.                                                               *)
C30_ImagesWithinAllThreeLimits ==
    an.op = "images" =>
        /\ \A i \in an.out.on_disk : ~image_too_old(an.dir[i])
        /\ Cardinality(an.out.on_disk) <= max_count
        /\ SizeOnDisk(an.dir, an.out.on_disk) <= max_size_mb
        /\ \A i \in an.out.on_disk, j \in 1..Len(an.dir) :
              j \notin an.out.on_disk => an.dir[j].mtime <= an.dir[i].mtime

(* the same, for directories in which every unlink succeeds                *)
C30_WithinLimitsWhenEveryUnlinkSucceeds ==
    (\A i \in 1..Len(an.dir) : an.dir[i].removable) => C30_ImagesWithinAllThreeLimits

(* C31: for a list with at least one kept detection the fast summary is    *)
(* mixed when a subject and a pest are kept, diseased when a pest and no   *)
(* subject is kept, healthy otherwise; its count is the number of kept     *)
(* detections and its confidence the highest confidence among them.        *)
C31_SummaryOfKeptDetections ==
    (an.op = "summary" /\ ReachThreshold(an.boxes) # {}) =>
        LET kept == ReachThreshold(an.boxes)
            subject == \E i \in kept : an.boxes[i].cls = "chrysanthemum"
            pest == \E i \in kept : an.boxes[i].cls = "mealybug"
        IN  /\ an.out.status = IF subject /\ pest THEN "mixed"
                               ELSE IF pest THEN "diseased" ELSE "healthy"
            /\ an.out.count = Cardinality(kept)
            /\ \E i \in kept :
                  /\ an.out.confidence = Some(an.boxes[i].conf)
                  /\ \A j \in kept : an.boxes[j].conf <= an.boxes[i].conf

(* C31 witness: a summary of three detections, a kept subject, a kept pest *)
(* and one below the threshold: mixed, count 2, the higher confidence.     *)
C31_Witness ==
    /\ an.op = "summary"
    /\ Len(an.boxes) = 3
    /\ an.boxes[1].cls = "mealybug" /\ an.boxes[1].conf = 60
    /\ an.boxes[2].conf = 40
    /\ an.boxes[3].cls = "chrysanthemum" /\ an.boxes[3].conf = 90
    /\ an.out = [status |-> "mixed", confidence |-> Some(90), count |-> 2]

----------------------------------------------------------------------------
(* Claims about the error paths of an iteration (SpecLoop).                *)

(* C32: an iteration whose frame acquisition fails counts the failure (the *)
(* counter is one higher, or back at 0 when the count reached the          *)
(* reconnect threshold and the camera was reconnected), changes no field   *)
(* of SharedState and attempts no submission.                              *)
C32_FailedAcquisitionLeavesStateAlone ==
    [][ (ev'.op = "iter" /\ ev'.frame \in {"no_color", "wait_error"}) =>
          /\ state' = state
          /\ files' = files
          /\ last_send_ts' = last_send_ts
          /\ last_attempt_ts' = last_attempt_ts
          /\ ev'.lov = "-" /\ ev'.sup = "-"
          /\ \/ consecutive_errors' = consecutive_errors + 1
             \/ /\ consecutive_errors + 1 >= max_consecutive_errors
                /\ ev'.reconnect
                /\ consecutive_errors' = 0
      ]_vars

(* C32 witness: wait_for_frames raised in a service that has published a   *)
(* frame and recorded a submission; the counter went up and nothing else.  *)
C32_Witness ==
    /\ ev.op = "iter"
    /\ ev.frame = "wait_error"
    /\ ~ev.reconnect
    /\ consecutive_errors = 2
    /\ state.latest_frame # None
    /\ state.last_send_response = "response"

(* C33: an exception raised in an iteration after the frame arrived (by    *)
(* inference, analysis, encoding or submission) is recorded in SharedState *)
(* as the last error, is not counted as a failed acquisition, and leaves   *)
(* the loop running.                                                       *)
C33_OtherErrorsRecordedNotCounted ==
    [][ (ev'.op = "iter" /\ ev'.frame = "ok" /\ ev'.raised # "None") =>
          /\ state'.last_send_error = ev'.raised
          /\ consecutive_errors' = 0
          /\ ~ev'.reconnect
          /\ phase' = "running"
      ]_vars

(* the part of C33 that the generic handler provides: an exception that is *)
(* not a RuntimeError is recorded and not counted                          *)
C33_NonRuntimeErrorsRecordedNotCounted ==
    [][ (ev'.op = "iter" /\ ev'.frame = "ok"
           /\ ev'.raised \notin {"None", "RuntimeError"}) =>
          /\ state'.last_send_error = ev'.raised
          /\ consecutive_errors' = 0
          /\ phase' = "running"
      ]_vars

----------------------------------------------------------------------------
(* SpecLock: where each thread is in DetectionService and who holds        *)
(* self.lock.  The loop thread walks _loop and _send_detection; a request  *)
(* thread of the HTTP server walks an accessor, the /stream generator or   *)
(* trigger_detection.  A position is one statement or one `with self.lock` *)
(* block; lk is [holder, at] in this specification.                        *)

LockThreads == {"loop", "http1", "http2"}

LockStart ==
    [holder |-> "none",
     at |-> [t \in LockThreads |-> IF t = "loop" THEN "while" ELSE "idle"]]

(* the positions of _loop and of what it calls that follow position p      *)
loop_successors(p, c) ==
    CASE p = "while" -> {"wait_for_frames"}                          \* 170-172
      [] p = "wait_for_frames" ->                                    \* 172-191, 290
            {"while", "model", "reconnect", "sleep_frame_error"}
      [] p = "reconnect" -> {"while", "sleep_frame_error", "exit"}   \* 181, 300, 313-324
      [] p = "sleep_frame_error" -> {"while"}                        \* 303
      [] p = "model" -> {"publish", "sleep_frame_error", "record_unexpected"}  \* 191, 290, 305
      [] p = "publish" ->                                            \* 238-246, 287-288
            IF c.auto /\ (lovable_enabled(c) \/ supabase_enabled(c))
            THEN {"while", "encode"} ELSE {"while"}
      [] p = "encode" ->                                             \* 359-365, 410, 433
            {"record_encode_error"}
            \cup (IF lovable_enabled(c) THEN {"post"} ELSE {"supabase_send"})
      [] p = "record_encode_error" -> {"while"}                      \* 363-366
      [] p = "post" -> {"record_lovable"}                            \* 412-426
      [] p = "record_lovable" ->                                     \* 426-433
            IF supabase_enabled(c) THEN {"supabase_send"} ELSE {"while"}
      [] p = "supabase_send" -> {"record_supabase", "record_unexpected"}  \* 598-608, 305
      [] p = "record_supabase" -> {"while"}                          \* 603-609, 434
      [] p = "record_unexpected" -> {"sleep_unexpected"}             \* 306-311
      [] p = "sleep_unexpected" -> {"while"}                         \* 311
      [] OTHER -> {}

(* the positions of a request thread that follow position p                *)
http_successors(p, c) ==
    CASE p = "idle" -> {"read", "copy_frame"}                        \* 439-483, 485-487
      [] p = "read" -> {"idle", "stream_sleep"}                      \* flask_app 88-91
      [] p = "stream_sleep" -> {"read"}                              \* flask_app 90
      [] p = "copy_frame" -> {"idle", "trigger_model"}               \* 487-498
      [] p = "trigger_model" ->                                      \* 498-516, 525-527
            IF lovable_enabled(c) THEN {"idle", "trigger_post"} ELSE {"idle"}
      [] p = "trigger_post" -> {"record_crops"}                      \* 556-577
      [] p = "record_crops" -> {"idle"}                              \* 570-577, 508
      [] OTHER -> {}

(* mutant: trigger_detection keeps the lock while it runs the model        *)
lock_depth_model_in_lock(p) ==
    IF p \in {"publish", "record_unexpected", "record_encode_error", "record_lovable",
              "record_supabase", "read", "copy_frame", "record_crops", "trigger_model"}
    THEN 1 ELSE 0

(* the number of `with self.lock` blocks around position p: lines 238,     *)
(* 306, 363, 426, 603/608, 441/457/464/469, 487, 570/576                   *)
lock_depth(p) ==
    IF p \in {"publish", "record_unexpected", "record_encode_error", "record_lovable",
              "record_supabase", "read", "copy_frame", "record_crops"}
    THEN 1 ELSE 0

(* the positions at which the thread is inside a call that blocks: waiting *)
(* for a frame, the model, a sleep, a network request or the queue file    *)
Blocking ==
    {"wait_for_frames", "reconnect", "sleep_frame_error", "model", "post",
     "supabase_send", "sleep_unexpected", "stream_sleep", "trigger_model", "trigger_post"}

InitLock ==
    /\ phase = "running"
    /\ files = [p \in Paths |-> MissingFile]
    /\ now = 1
    /\ cfg \in { c \in Configs : c.send_interval = 0 /\ ~c.path_override }
    /\ state = SharedState
    /\ consecutive_errors = 0
    /\ no_frame_run = 0
    /\ last_send_ts = 0
    /\ pipeline = "started"
    /\ stop_event = FALSE
    /\ flushed = <<>>
    /\ stats = ZeroStats
    /\ ev = NoEv
    /\ disk = NoDisk
    /\ wr = NoWrite
    /\ th = NoThreads
    /\ lk = LockStart
    /\ last_attempt_ts = 0
    /\ engine = NoEngine
    /\ an = NoCall

(* thread t moves to position q; entering a `with self.lock` block waits   *)
(* for the lock (threading.Lock, not re-entrant), leaving it releases      *)
move(l, t, q) ==
    [holder |-> IF lock_depth(q) > 0 THEN t
                ELSE IF l.holder = t THEN "none" ELSE l.holder,
     at |-> [l.at EXCEPT ![t] = q]]

can_move(l, t, q) == lock_depth(q) > lock_depth(l.at[t]) => l.holder = "none"

LoopStep(q) ==
    /\ q \in loop_successors(lk.at["loop"], cfg)
    /\ can_move(lk, "loop", q)
    /\ lk' = move(lk, "loop", q)
    /\ UNCHANGED <<phase, files, now, cfg, state, consecutive_errors, no_frame_run,
                   last_send_ts, pipeline, stop_event, flushed, stats, ev, disk, wr, th,
                   last_attempt_ts, engine, an>>

HttpStep(t, q) ==
    /\ t \in LockThreads \ {"loop"}
    /\ q \in http_successors(lk.at[t], cfg)
    /\ can_move(lk, t, q)
    /\ lk' = move(lk, t, q)
    /\ UNCHANGED <<phase, files, now, cfg, state, consecutive_errors, no_frame_run,
                   last_send_ts, pipeline, stop_event, flushed, stats, ev, disk, wr, th,
                   last_attempt_ts, engine, an>>

LockPositions ==
    {"while", "wait_for_frames", "reconnect", "sleep_frame_error", "model", "publish",
     "encode", "record_encode_error", "post", "record_lovable", "supabase_send",
     "record_supabase", "record_unexpected", "sleep_unexpected", "exit",
     "idle", "read", "stream_sleep", "copy_frame", "trigger_model", "trigger_post",
     "record_crops"}

NextLock ==
    \/ \E q \in LockPositions : LoopStep(q)
    \/ \E t \in LockThreads, q \in LockPositions : HttpStep(t, q)

SpecLock == InitLock /\ [][NextLock]_vars

(* C34: a thread inside a blocking call (waiting for a frame, running the  *)
(* model, sleeping, in a network request) does not hold the SharedState    *)
(* lock; no thread is inside two lock blocks; the lock is held exactly by  *)
(* the thread that is inside a lock block.                                 *)
C34_NoLockAcrossBlockingCalls ==
    \A t \in LockThreads :
        /\ lk.at[t] \in Blocking => lk.holder # t
        /\ lock_depth(lk.at[t]) <= 1
        /\ lk.holder = t <=> lock_depth(lk.at[t]) = 1

(* C34 witness: the loop thread is in its network request, one request     *)
(* thread runs the model for a manual trigger, and the other reads the     *)
(* status under the lock.                                                  *)
C34_Witness ==
    /\ lk.at["loop"] = "post"
    /\ lk.at["http1"] = "trigger_model"
    /\ lk.at["http2"] = "read"
    /\ lk.holder = "http2"

----------------------------------------------------------------------------
(* SpecCleanup: one call of cleanup_pending_cache on any queue file.  The  *)
(* file is missing, unreadable (not JSON, or open fails), JSON that is not *)
(* a list, or a list of up to MaxDoc entries; the write-back succeeds,     *)
(* fails while the temporary file is written, or fails at os.replace.      *)

QueueFileKinds == {"missing", "unreadable", "not_list", "list"}
WriteBackOutcomes == {"ok", "tmp_fails", "replace_fails"}

(* cleanup_utils.py 38-69: the file is cleaned only if it holds a list     *)
cleanup_reads_list(kind) == kind = "list"

(* cleanup_pending_cache, lines 38-120: the file afterwards and the        *)
(* statistics returned                                                     *)
cleanup_call(kind, entries, t, io) ==
    IF ~cleanup_reads_list(kind)
    THEN [kind |-> kind, entries |-> entries, stats |-> ZeroStats]
    ELSE [kind |-> kind,
          entries |-> cleanup_pending_cache(FileOf(entries), t, io = "ok").entries,
          stats |-> cleanup_stats(FileOf(entries), t, io = "ok")]

InitCleanupCall ==
    /\ InitCall
    /\ \E kind \in QueueFileKinds, doc \in StartupDocs, io \in WriteBackOutcomes :
          /\ kind # "list" => (doc = <<>> /\ io = "ok")
          /\ an = [op |-> "input", kind |-> kind, entries |-> doc, io |-> io,
                   out |-> <<>>]

CallCleanup ==
    /\ an.op = "input"
    /\ an' = [an EXCEPT !.op = "cleanup",
                        !.out = cleanup_call(an.kind, an.entries, StartupNow, an.io)]
    /\ UnchangedByCall

NextCleanup == CallCleanup

SpecCleanup == InitCleanupCall /\ [][NextCleanup]_vars

(* C35: when the write-back of cleanup_pending_cache fails, the queue file *)
(* holds what it held and total_after equals total_before; when the file   *)
(* is missing, unreadable or not a list, it is untouched and every         *)
(* statistic is 0.                                                         *)
C35_FailedCleanupLeavesQueueFile ==
    an.op = "cleanup" =>
        /\ (an.kind = "list" /\ an.io # "ok") =>
              /\ an.out.kind = an.kind /\ an.out.entries = an.entries
              /\ an.out.stats.total_before = Len(an.entries)
              /\ an.out.stats.total_after = an.out.stats.total_before
        /\ an.kind # "list" =>
              /\ an.out.kind = an.kind /\ an.out.entries = an.entries
              /\ an.out.stats = ZeroStats

(* C35 witness: os.replace fails for a queue of three entries of which     *)
(* cleanup would have removed one as too old; the file is as before and    *)
(* the statistics say 3 before, 1 old, 3 after.                            *)
C35_Witness ==
    /\ an.op = "cleanup"
    /\ an.kind = "list" /\ an.io = "replace_fails"
    /\ Len(an.entries) = 3
    /\ an.out.entries = an.entries
    /\ an.out.stats.removed_old = 1
    /\ an.out.stats.total_before = 3 /\ an.out.stats.total_after = 3

----------------------------------------------------------------------------
(* SpecQueue: the life of the pending queue over several runs of a service *)
(* with the secondary sink configured and automatic submission on:         *)
(* construction (flush, then maintenance), start, iterations that submit,  *)
(* exit, time passing between two runs, construction again.  The queue is *)
(* at the default path.                                                    *)

InitQueue ==
    /\ Init
    /\ supabase_enabled(cfg) /\ ~lovable_enabled(cfg) /\ cfg.auto
    /\ cfg.send_interval = 0 /\ ~cfg.path_override

NextQueue ==
    \/ (phase = "down" /\ Tick)
    \/ \E ok \in SUBSET (1..MaxQueue), io \in {"ok", "fail"} : InitFlush(ok, io)
    \/ \E io \in {"ok", "fail"} : InitCleanup(io)
    \/ Start(0)
    \/ Exit
    \/ \E o \in Outcomes(cfg) : IterSubmit(LoopScene, o)

SpecQueue == InitQueue /\ [][NextQueue]_vars

(* how many entries of the list are equal to e but for the retry count     *)
CountOf(entries, e) ==
    Cardinality({ i \in 1..Len(entries) :
                    entries[i].payload = e.payload /\ entries[i].ts = e.ts })

(* how many entries of the list are exactly e                              *)
CountExactly(entries, e) == Cardinality({ i \in 1..Len(entries) : entries[i] = e })

EntriesOf(entries) == { entries[i] : i \in 1..Len(entries) }

(* C36: an entry leaves a queue file only in a flush that delivered it or  *)
(* in a maintenance run that finds it too old, over the retry limit or in  *)
(* excess of the newest PENDING_MAX_ENTRIES; a failed delivery, in a flush *)
(* or in a submission, removes nothing.                                    *)
C36_EntriesLeaveOnlyDeliveredOrEvicted ==
    [][ \A p \in Paths :
          LET before == read_pending_entries(files[p])
              after == read_pending_entries(files'[p])
          IN  \A e \in EntriesOf(before) :
                 /\ ev'.op = "flush" =>
                       CountOf(before, e) - CountOf(after, e) =
                          IF p = pending_path(cfg) /\ ev'.io = "ok"
                          THEN Cardinality({ i \in ev'.ok \cap (1..Len(before)) :
                                               /\ before[i].payload = e.payload
                                               /\ before[i].ts = e.ts })
                          ELSE 0
                 /\ ev'.op = "cleanup" =>
                       (CountExactly(after, e) < CountExactly(before, e) =>
                          \/ now - e.ts > PENDING_MAX_AGE_DAYS
                          \/ Retries(e) > PENDING_MAX_RETRIES
                          \/ /\ Len(after) = PENDING_MAX_ENTRIES
                             /\ \A j \in 1..Len(after) : after[j].ts >= e.ts)
                 /\ ev'.op \notin {"flush", "cleanup"} =>
                       CountExactly(after, e) >= CountExactly(before, e)
      ]_vars

(* C36 witness: a flush in which one of two queued entries was delivered   *)
(* and the other failed: the failed one is still queued, with one retry.   *)
C36_Witness ==
    /\ ev.op = "flush" /\ ev.io = "ok"
    /\ Cardinality(ev.ok) = 1
    /\ Len(flushed) = 1
    /\ Len(files[pending_path(cfg)].entries) = 1
    /\ Retries(files[pending_path(cfg)].entries[1]) = 1

(* C37: flush and maintenance are steps of the construction, before the    *)
(* loop runs; a step of a running service leaves every queue file as it    *)
(* is or appends one fresh entry to the writer's file, at a submission     *)
(* that failed at the secondary sink, and every such submission whose      *)
(* append is written adds one.                                             *)
C37_QueueOnlyGrowsWhileRunning ==
    [][ /\ ev'.op \in {"flush", "cleanup"} =>
              /\ phase \in {"down", "flushed"}
              /\ phase' \in {"down", "flushed", "constructed"}
        /\ phase = "running" =>
              /\ ev'.op \notin {"flush", "cleanup"}
              /\ \A p \in Paths :
                    LET before == read_pending_entries(files[p])
                        after == read_pending_entries(files'[p])
                        appended == /\ Len(after) = Len(before) + 1
                                    /\ SubSeq(after, 1, Len(before)) = before
                                    /\ Retries(after[Len(after)]) = 0
                    IN  /\ files'[p] = files[p]
                           \/ (p = pending_path(cfg) /\ ev'.op = "iter"
                                  /\ ev'.sup = "fail" /\ appended)
                        /\ (p = pending_path(cfg) /\ ev'.op = "iter"
                              /\ ev'.sup = "fail" /\ ev'.io = "ok") => appended
      ]_vars

(* C37 witness: a running service queues a failed submission behind an     *)
(* entry that an earlier construction tried to flush and kept.             *)
C37_Witness ==
    /\ phase = "running"
    /\ ev.op = "iter" /\ ev.sup = "fail" /\ ev.io = "ok"
    /\ Len(files[pending_path(cfg)].entries) = 2
    /\ Retries(files[pending_path(cfg)].entries[1]) = 1
    /\ Retries(files[pending_path(cfg)].entries[2]) = 0

----------------------------------------------------------------------------
(* SpecWriters: which thread is inside an operation on the pending-queue   *)
(* file.  The constructing thread runs __init__ and start(); the loop      *)
(* thread exists from line 114 on; the request threads of the HTTP server  *)
(* serve accessors and manual triggers once the service object exists.     *)
(* wr is [at] in this specification: the position of every thread.         *)

WriterThreads == {"main", "loop", "http1", "http2"}

WritersStart ==
    [at |-> [t \in WriterThreads |->
               IF t = "main" THEN "new" ELSE IF t = "loop" THEN "unborn" ELSE "idle"]]

(* __init__ lines 88-103 and start() lines 108-114                         *)
main_successors(p, c) ==
    CASE p = "new" ->
            IF supabase_enabled(c) THEN {"flush_pending"} ELSE {"cleanup_on_startup"}
      [] p = "flush_pending" -> {"cleanup_on_startup", "failed"}
      [] p = "cleanup_on_startup" -> {"constructed"}
      [] p = "constructed" -> {"start_pipeline"}
      [] p = "start_pipeline" -> {"serving", "failed"}
      [] OTHER -> {}

(* _loop, _send_detection 341-434, _send_supabase 579-610 and              *)
(* supabase_client.send_detection 60-80                                    *)
worker_successors(p, c) ==
    CASE p = "while" -> {"iteration"}
      [] p = "iteration" ->
            IF c.auto /\ (lovable_enabled(c) \/ supabase_enabled(c))
            THEN {"while", "send_detection"} ELSE {"while"}
      [] p = "send_detection" ->
            IF supabase_enabled(c) THEN {"while", "send_once"} ELSE {"while"}
      [] p = "send_once" -> {"while", "append_pending"}
      [] p = "append_pending" -> {"while"}
      [] OTHER -> {}

(* the accessors 439-483, trigger_detection 485-516 and                    *)
(* _send_detection_with_crops 518-577                                      *)
request_successors(p, c) ==
    CASE p = "idle" -> {"accessor", "trigger_detection"}
      [] p = "accessor" -> {"idle"}
      [] p = "trigger_detection" ->
            IF lovable_enabled(c) THEN {"idle", "send_with_crops"} ELSE {"idle"}
      [] p = "send_with_crops" -> {"idle"}
      [] OTHER -> {}

(* mutant: the manual trigger hands its result to the secondary sink too   *)
touches_queue_from_trigger(p) ==
    p \in {"flush_pending", "cleanup_on_startup", "append_pending", "send_with_crops"}

(* the positions at which a thread reads or writes a queue file:           *)
(* flush_pending (supabase_client 82-103), cleanup_pending_cache           *)
(* (cleanup_utils 38-111), _append_pending (supabase_client 187-207)       *)
touches_queue(p) == p \in {"flush_pending", "cleanup_on_startup", "append_pending"}

InitWriters ==
    /\ phase = "down"
    /\ files = [p \in Paths |-> MissingFile]
    /\ now = 1
    /\ cfg \in { c \in Configs : c.send_interval = 0 /\ ~c.path_override }
    /\ state = SharedState
    /\ consecutive_errors = 0
    /\ no_frame_run = 0
    /\ last_send_ts = 0
    /\ pipeline = "stopped"
    /\ stop_event = FALSE
    /\ flushed = <<>>
    /\ stats = ZeroStats
    /\ ev = NoEv
    /\ disk = NoDisk
    /\ wr = WritersStart
    /\ th = NoThreads
    /\ lk = NoLock
    /\ last_attempt_ts = 0
    /\ engine = NoEngine
    /\ an = NoCall

UnchangedByWriters ==
    UNCHANGED <<phase, files, now, cfg, state, consecutive_errors, no_frame_run,
                last_send_ts, pipeline, stop_event, flushed, stats, ev, disk, th, lk,
                last_attempt_ts, engine, an>>

(* the constructing thread moves on; line 114 starts the loop thread       *)
StartupStep(q) ==
    /\ q \in main_successors(wr.at["main"], cfg)
    /\ wr' = [at |-> [wr.at EXCEPT !["main"] = q,
                                   !["loop"] = IF q = "serving" THEN "while" ELSE @]]
    /\ UnchangedByWriters

WorkerStep(q) ==
    /\ q \in worker_successors(wr.at["loop"], cfg)
    /\ wr' = [at |-> [wr.at EXCEPT !["loop"] = q]]
    /\ UnchangedByWriters

(* flask_app.py line 13: the routes exist only after DetectionService()    *)
(* has returned                                                            *)
RequestStep(t, q) ==
    /\ t \in WriterThreads \ {"main", "loop"}
    /\ wr.at["main"] \in {"constructed", "start_pipeline", "serving", "failed"}
    /\ q \in request_successors(wr.at[t], cfg)
    /\ wr' = [at |-> [wr.at EXCEPT ![t] = q]]
    /\ UnchangedByWriters

WriterPositions ==
    {"new", "flush_pending", "cleanup_on_startup", "constructed", "start_pipeline",
     "serving", "failed", "unborn", "while", "iteration", "send_detection", "send_once",
     "append_pending", "idle", "accessor", "trigger_detection", "send_with_crops"}

NextWriters ==
    \/ \E q \in WriterPositions : StartupStep(q)
    \/ \E q \in WriterPositions : WorkerStep(q)
    \/ \E t \in WriterThreads, q \in WriterPositions : RequestStep(t, q)

SpecWriters == InitWriters /\ [][NextWriters]_vars

(* C38: at most one thread is inside an operation on the queue file; while *)
(* the constructing thread is inside flush or maintenance the loop thread  *)
(* does not exist yet; once the loop thread exists it is the only thread   *)
(* that touches the file, and a request thread never does.                 *)
C38_QueueFileHasOneWriter ==
    LET inside == { t \in WriterThreads : touches_queue(wr.at[t]) }
    IN  /\ Cardinality(inside) <= 1
        /\ "main" \in inside => wr.at["loop"] = "unborn"
        /\ wr.at["loop"] # "unborn" => inside \subseteq {"loop"}
        /\ inside \cap {"http1", "http2"} = {}

(* C38 witness: the loop thread is appending to the queue while both       *)
(* request threads are in a manual trigger, one of them posting.           *)
C38_Witness ==
    /\ wr.at["main"] = "serving"
    /\ wr.at["loop"] = "append_pending"
    /\ wr.at["http1"] = "send_with_crops"
    /\ wr.at["http2"] = "trigger_detection"

(* C39: the file that startup maintenance cleans is the file the writer    *)
(* appends to and flushes, whatever the configuration: after a maintenance *)
(* run that wrote its result, the writer's queue file holds the cleaned    *)
(* list of what it held.                                                   *)
C39_MaintenanceCleansTheWritersQueue ==
    [][ ev'.op = "cleanup" =>
          /\ cleanup_path(cfg) = pending_path(cfg)
          /\ ev'.io = "ok" =>
                files'[pending_path(cfg)] =
                   IF files[pending_path(cfg)].exists
                   THEN FileOf(cleaned_entries(files[pending_path(cfg)].entries, now))
                   ELSE files[pending_path(cfg)]
      ]_vars

(* the same with the queue at its default path                             *)
C39_MaintenanceCleansTheDefaultQueue ==
    [][ (ev'.op = "cleanup" /\ ~cfg.path_override) =>
          /\ cleanup_path(cfg) = pending_path(cfg)
          /\ ev'.io = "ok" =>
                files'[pending_path(cfg)] =
                   IF files[pending_path(cfg)].exists
                   THEN FileOf(cleaned_entries(files[pending_path(cfg)].entries, now))
                   ELSE files[pending_path(cfg)]
      ]_vars

(* ---------------------------------------------------------------------- *)
(* The manual trigger and the outcome of its delivery                      *)
(* (trigger_detection, lines 485-516; _send_detection_with_crops,          *)
(* lines 518-577)                                                          *)
(* ---------------------------------------------------------------------- *)

(* a step of trigger_detection on an available frame whose inference and   *)
(* analysis completed                                                      *)
TriggerCompleted ==
    /\ ev'.op = "trigger"
    /\ state.latest_frame # None
    /\ ev'.inf = "ok"

(* C40 as stated: a manual trigger on an available frame whose inference   *)
(* and analysis complete returns success whatever the delivery outcome; a  *)
(* failed delivery and a skipped delivery are both recorded as the primary *)
(* sink's last error, and nothing else changes: the queue file, the        *)
(* secondary sink's fields and the automatic-submission timer are left     *)
(* alone.                                                                  *)
C40_TriggerSucceedsWhateverTheDelivery ==
    [][ TriggerCompleted =>
          /\ ev'.result = "success"
          /\ ev'.lov \in {"fail", "skip"} =>
                /\ state'.last_send_error # "None"
                /\ state' = [state EXCEPT !.last_send_error = state'.last_send_error]
          /\ files' = files
          /\ ev'.sup = NoEv.sup
          /\ last_send_ts' = last_send_ts
          /\ last_attempt_ts' = last_attempt_ts ]_vars

(* C40 as the code has it: the trigger returns success whatever the        *)
(* delivery outcome; a failed POST is recorded as the primary sink's last  *)
(* error and changes nothing else in SharedState; a delivery skipped       *)
(* because the primary endpoint lacks a credential leaves SharedState      *)
(* entirely unchanged (line 526 only logs a warning); the queue file, the  *)
(* secondary sink and the automatic-submission timer are left alone.       *)
C40_TriggerSucceedsAndOnlyFailedPostIsRecorded ==
    [][ TriggerCompleted =>
          /\ ev'.result = "success"
          /\ ev'.raised = "None"
          /\ ev'.lov = "fail" =>
                state' = [state EXCEPT !.last_send_error = "RequestException"]
          /\ ev'.lov = "skip" => ~lovable_enabled(cfg) /\ state' = state
          /\ ev'.lov = "ok" =>
                state' = [state EXCEPT !.last_send_response = "response",
                                       !.last_send_error = "None"]
          /\ files' = files
          /\ ev'.sup = NoEv.sup
          /\ last_send_ts' = last_send_ts
          /\ last_attempt_ts' = last_attempt_ts ]_vars

(* a trigger whose POST failed has returned success, with the failure as   *)
(* the primary sink's last error, while an earlier failed secondary        *)
(* submission of the loop is still queued                                  *)
C40_Witness ==
    /\ ev.op = "trigger"
    /\ ev.inf = "ok"
    /\ ev.lov = "fail"
    /\ ev.result = "success"
    /\ state.last_send_error = "RequestException"
    /\ Len(read_pending_entries(files[pending_path(cfg)])) > 0

====
